---- MODULE Spec2Model ----
(***************************************************************************)
(* Model of the slide-deck engine of m2ar2c/ai-tech:                       *)
(*   src/scripts/generate_slides.py   bounded policy (exactly 50 slides)   *)
(*   src/generate_slides.py           unbounded policy, line-stream input  *)
(*   src/convert_doubao_html_to_ppt.py  unbounded policy, tag-tree input   *)
(*                                                                         *)
(* A Python str is modelled as a sequence of characters; a character is a  *)
(* one-element TLA+ string, and a non-ASCII character is written by its    *)
(* code point ("U+3002").                                                  *)
(***************************************************************************)
EXTENDS Integers, Sequences, FiniteSets, TLC

VARIABLES
    \* build_slides (src/scripts/generate_slides.py)
    sections,        \* the argument: list of Section
    slides,          \* the local list slides
    pc,              \* position inside build_slides
    index,           \* loop variable of the section loop (1-based)
    template_index,  \* loop variable of the synthesis loop
    m,               \* len(slides) when the section loop was left (0 before)
    \* add_bullet_slides (src/convert_doubao_html_to_ppt.py)
    pg_title,        \* argument title
    pg_items,        \* argument items
    pg_size,         \* argument chunk_size
    pg_valid,        \* valid_items
    pg_index,        \* the enumerate index of the chunk loop (1-based)
    pg_out,          \* the slides added to prs, as [title, bullets]
    pg_pc,           \* position inside add_bullet_slides
    \* the consolidators summarise_lines (src/generate_slides.py),
    \* post_process_bullets (src/convert_doubao_html_to_ppt.py) and
    \* to_bullets (src/scripts/generate_slides.py)
    co_prog,         \* which of the three is called
    co_lines,        \* argument lines (items of post_process_bullets)
    co_max,          \* argument max_points (max_items of to_bullets)
    co_pc,           \* position inside the function
    co_out,          \* the returned list
    sl_points,       \* summarise_lines: points
    sl_buffer,       \* summarise_lines: buffer
    sl_list_buffer,  \* summarise_lines: list_buffer
    sl_i,            \* summarise_lines: index of the next line / point
    sl_cleaned,      \* summarise_lines: cleaned_points
    sl_seen,         \* summarise_lines: seen
    pp_combined,     \* post_process_bullets: combined
    \* the unbounded deck builders build_slide_data (src/generate_slides.py)
    \* and build_presentation (src/convert_doubao_html_to_ppt.py)
    ub_prog,         \* which of the two is called
    ub_input,        \* the Markdown lines, or the sections of the HTML page
    ub_parsed,       \* build_slide_data: parsed
    ub_slides,       \* the slides of the deck
    ub_i,            \* index of the next parsed item / section
    ub_j,            \* build_presentation: index of the next major heading
    ub_pc,           \* position inside the function
    \* the text functions split_sentences, clean_text
    \* (src/scripts/generate_slides.py) and clean_line (src/generate_slides.py)
    tx_fn,           \* which function is called
    tx_in,           \* the argument
    tx_out,          \* the value returned for tx_in
    tx_twice,        \* the value returned for tx_out
    tx_pc,           \* how many calls were made
    \* parse_report (src/scripts/generate_slides.py)
    pr_lines,        \* the lines of the file (splitlines)
    pr_i,            \* index of the next line
    pr_sections,     \* sections
    pr_current_section,     \* index in sections of current_section, 0 for None
    pr_current_subsection,  \* <<s, k>> for subsection k of section s, <<>> for None
    pr_pc,           \* position inside parse_report
    \* gather_subsection_content (src/convert_doubao_html_to_ppt.py)
    gs_siblings,     \* h3_tag.next_siblings, in document order
    gs_i,            \* index of the next sibling
    gs_fragments,    \* fragments
    gs_out,          \* the returned list
    gs_pc,           \* position inside gather_subsection_content
    \* gather_intro_paragraphs (src/convert_doubao_html_to_ppt.py)
    gi_blocks,       \* blocks = get_content_blocks(h2)
    gi_i,            \* index of the next block
    gi_intro_texts,  \* intro_texts
    gi_out,          \* the returned list
    gi_pc            \* position inside gather_intro_paragraphs

bsVars == <<sections, slides, pc, index, template_index, m>>
pgVars == <<pg_title, pg_items, pg_size, pg_valid, pg_index, pg_out, pg_pc>>
coVars == <<co_prog, co_lines, co_max, co_pc, co_out, sl_points, sl_buffer,
           sl_list_buffer, sl_i, sl_cleaned, sl_seen, pp_combined>>
ubVars == <<ub_prog, ub_input, ub_parsed, ub_slides, ub_i, ub_j, ub_pc>>
txVars == <<tx_fn, tx_in, tx_out, tx_twice, tx_pc>>
prVars == <<pr_lines, pr_i, pr_sections, pr_current_section, pr_current_subsection,
           pr_pc>>
gsVars == <<gs_siblings, gs_i, gs_fragments, gs_out, gs_pc>>
giVars == <<gi_blocks, gi_i, gi_intro_texts, gi_out, gi_pc>>
vars == <<bsVars, pgVars, coVars, ubVars, txVars, prVars, gsVars, giVars>>

\* the variables of the other programs, unchanged by the actions of one
notBs == <<pgVars, coVars, ubVars, txVars, prVars, gsVars, giVars>>
notPg == <<bsVars, coVars, ubVars, txVars, prVars, gsVars, giVars>>
notCo == <<bsVars, pgVars, ubVars, txVars, prVars, gsVars, giVars>>
notUb == <<bsVars, pgVars, coVars, txVars, prVars, gsVars, giVars>>
notTx == <<bsVars, pgVars, coVars, ubVars, prVars, gsVars, giVars>>
notPr == <<bsVars, pgVars, coVars, ubVars, txVars, gsVars, giVars>>
notGs == <<bsVars, pgVars, coVars, ubVars, txVars, prVars, giVars>>
notGi == <<bsVars, pgVars, coVars, ubVars, txVars, prVars, gsVars>>

-----------------------------------------------------------------------------
(* Characters *)

CJK_STOP   == "U+3002"   \* ideographic full stop
CJK_EXCL   == "U+FF01"   \* fullwidth exclamation mark
CJK_QUES   == "U+FF1F"   \* fullwidth question mark
CJK_SEMI   == "U+FF1B"   \* fullwidth semicolon
CJK_COMMA  == "U+FF0C"   \* fullwidth comma
CJK_ENUM   == "U+3001"   \* ideographic (enumeration) comma
CJK_COLON  == "U+FF1A"   \* fullwidth colon
CJK_LPAREN == "U+FF08"   \* fullwidth left parenthesis
CJK_RPAREN == "U+FF09"   \* fullwidth right parenthesis
BACKTICK   == "U+0060"   \* grave accent, the Markdown code marker

\* the characters Python's str.strip() and the regex class \s remove
Whitespace == {" ", "\t", "\n"}
Digits == {"0", "1", "2", "3", "4", "5", "6", "7", "8", "9"}

-----------------------------------------------------------------------------
(* Python sequence and string primitives *)

Min(a, b) == IF a <= b THEN a ELSE b

\* s[:n]
Take(s, n) == SubSeq(s, 1, Min(n, Len(s)))
\* s[n:]
Drop(s, n) == SubSeq(s, n + 1, Len(s))

\* s.startswith(p)
StartsWith(s, p) == Len(s) >= Len(p) /\ SubSeq(s, 1, Len(p)) = p
\* s.endswith(p)
EndsWith(s, p) == Len(s) >= Len(p) /\ SubSeq(s, Len(s) - Len(p) + 1, Len(s)) = p

\* the least element of a non-empty set of indices
First(S) == CHOOSE i \in S : \A j \in S : i <= j
\* s has a character in cs
HasIn(s, cs) == \E i \in 1..Len(s) : s[i] \in cs
\* s has a character outside cs
HasOut(s, cs) == \E i \in 1..Len(s) : s[i] \notin cs

\* the index of the first character of s in cs
FirstIn(s, cs) ==
    CHOOSE i \in 1..Len(s) : s[i] \in cs /\ \A j \in 1..(i - 1) : s[j] \notin cs
\* the index of the first character of s outside cs
FirstOut(s, cs) ==
    CHOOSE i \in 1..Len(s) : s[i] \notin cs /\ \A j \in 1..(i - 1) : s[j] \in cs
\* the index of the last character of s outside cs
LastOut(s, cs) ==
    CHOOSE i \in 1..Len(s) : s[i] \notin cs /\ \A j \in (i + 1)..Len(s) : s[j] \in cs

\* s.lstrip(chars)
LStripChars(s, cs) ==
    IF HasOut(s, cs) THEN SubSeq(s, FirstOut(s, cs), Len(s)) ELSE <<>>
\* s.rstrip(chars)
RStripChars(s, cs) ==
    IF HasOut(s, cs) THEN SubSeq(s, 1, LastOut(s, cs)) ELSE <<>>
\* s.strip(chars)
StripChars(s, cs) == RStripChars(LStripChars(s, cs), cs)
\* s.strip()
Strip(s) == StripChars(s, Whitespace)
\* s.rstrip()
RStrip(s) == RStripChars(s, Whitespace)

\* the indices of s at which an occurrence of pat starts
Occurrences(s, pat) ==
    {i \in 1..(Len(s) - Len(pat) + 1) : SubSeq(s, i, i + Len(pat) - 1) = pat}

\* s.replace(pat, rep): leftmost, non-overlapping occurrences
RECURSIVE ReplaceAll(_, _, _)
ReplaceAll(s, pat, rep) ==
    IF Occurrences(s, pat) = {} THEN s
    ELSE SubSeq(s, 1, First(Occurrences(s, pat)) - 1) \o rep
             \o ReplaceAll(Drop(s, First(Occurrences(s, pat)) + Len(pat) - 1), pat, rep)

\* sep.join(parts)
RECURSIVE Join(_, _)
Join(parts, sep) ==
    IF parts = <<>> THEN <<>>
    ELSE IF Len(parts) = 1 THEN parts[1]
    ELSE parts[1] \o sep \o Join(Tail(parts), sep)

\* the concatenation of a list of lists
RECURSIVE Flatten(_)
Flatten(ss) == IF ss = <<>> THEN <<>> ELSE ss[1] \o Flatten(Tail(ss))

\* [f for f in s if f]
NonEmpty(s) == SelectSeq(s, LAMBDA x : x # <<>>)

\* the least i >= from with s[i] = c, 0 when there is none
IndexOf(s, c, from) ==
    IF \E i \in from..Len(s) : s[i] = c
    THEN CHOOSE i \in from..Len(s) :
             s[i] = c /\ \A j \in from..(i - 1) : s[j] # c
    ELSE 0

\* re.sub of every whitespace run by one space
RECURSIVE CollapseSpaces(_)
CollapseSpaces(s) ==
    IF ~HasIn(s, Whitespace) THEN s
    ELSE SubSeq(s, 1, FirstIn(s, Whitespace) - 1) \o <<" ">>
             \o CollapseSpaces(LStripChars(Drop(s, FirstIn(s, Whitespace)), Whitespace))

\* f"{n}" for a natural number n
RECURSIVE ToStr(_)
ToStr(n) ==
    LET d == <<"0", "1", "2", "3", "4", "5", "6", "7", "8", "9">>
    IN IF n < 10 THEN <<d[n + 1]>> ELSE ToStr(n \div 10) \o <<d[(n % 10) + 1]>>

\* f"{n:02d}"
Fmt02(n) == IF n < 10 THEN <<"0">> \o ToStr(n) ELSE ToStr(n)

\* A bracketed label followed by a parenthesised target, opening at s[i]:
\* the index of the closing parenthesis of the regex match (label of at least
\* minLabel characters other than "]", target of at least minTarget characters
\* other than the closing parenthesis), or 0 when s[i..] does not match.
LinkEnd(s, i, minLabel, minTarget) ==
    IF i > Len(s) \/ s[i] # "[" THEN 0
    ELSE LET j == IndexOf(s, "]", i + 1)
         IN IF j = 0 \/ j - (i + 1) < minLabel \/ j + 1 > Len(s) THEN 0
            ELSE IF s[j + 1] # "(" THEN 0
            ELSE LET k == IndexOf(s, ")", j + 2)
                 IN IF k = 0 \/ k - (j + 2) < minTarget THEN 0 ELSE k

\* the indices of s at which the image pattern matches
ImageStarts(s, minTarget) ==
    {i \in 1..Len(s) : s[i] = "!" /\ LinkEnd(s, i + 1, 0, minTarget) # 0}

\* re.sub of the image pattern by "": "!" then a label then a target
RECURSIVE RemoveImages(_, _)
RemoveImages(s, minTarget) ==
    IF ImageStarts(s, minTarget) = {} THEN s
    ELSE SubSeq(s, 1, First(ImageStarts(s, minTarget)) - 1)
             \o RemoveImages(Drop(s, LinkEnd(s, First(ImageStarts(s, minTarget)) + 1,
                                             0, minTarget)),
                             minTarget)

\* the indices of s at which the link pattern matches
LinkStarts(s, minTarget) == {i \in 1..Len(s) : LinkEnd(s, i, 1, minTarget) # 0}

\* the replacement of the link that opens at s[i]: the text before it, then
\* its label (group 1), then the rest with its links replaced
RECURSIVE ReplaceLinks(_, _)
ReplaceLinkAt(s, i, minTarget) ==
    SubSeq(s, 1, i - 1) \o SubSeq(s, i + 1, IndexOf(s, "]", i + 1) - 1)
        \o ReplaceLinks(Drop(s, LinkEnd(s, i, 1, minTarget)), minTarget)

\* re.sub of the link pattern by its label (group 1)
ReplaceLinks(s, minTarget) ==
    IF LinkStarts(s, minTarget) = {} THEN s
    ELSE ReplaceLinkAt(s, First(LinkStarts(s, minTarget)), minTarget)

\* the indices of the backticks of s that another backtick follows
QuoteStarts(s) ==
    {i \in 1..Len(s) : s[i] = BACKTICK /\ IndexOf(s, BACKTICK, i + 1) # 0}

\* the replacement of the quoted span that opens at s[i]
RECURSIVE UnwrapBackticks(_)
UnwrapAt(s, i) ==
    SubSeq(s, 1, i - 1) \o SubSeq(s, i + 1, IndexOf(s, BACKTICK, i + 1) - 1)
        \o UnwrapBackticks(Drop(s, IndexOf(s, BACKTICK, i + 1)))

\* re.sub of a backtick-quoted span by its content (group 1)
UnwrapBackticks(s) ==
    IF QuoteStarts(s) = {} THEN s ELSE UnwrapAt(s, First(QuoteStarts(s)))

-----------------------------------------------------------------------------
(* src/scripts/generate_slides.py: text functions *)

TOTAL_SLIDES == 50
MAX_SECTION_SUBSLIDES == 5

\* clean_text(text)
clean_text(text) ==
    LET t1 == UnwrapBackticks(text)
        t2 == RemoveImages(t1, 0)
        t3 == ReplaceLinks(t2, 0)
        t4 == ReplaceAll(t3, <<"*", "*">>, <<>>)
        t5 == ReplaceAll(t4, <<"_", "_">>, <<>>)
        t6 == ReplaceAll(t5, <<"*">>, <<>>)
        t7 == ReplaceAll(t6, <<"#">>, <<>>)
        t8 == ReplaceAll(t7, <<BACKTICK>>, <<>>)
    IN Strip(t8)

\* the terminators of the findall pattern of split_sentences
ScriptTerminators == {CJK_STOP, CJK_EXCL, CJK_QUES, "!", "?"}

\* the length of the longest prefix of s made of characters outside cs
RunOutside(s, cs) ==
    IF HasIn(s, cs) THEN FirstIn(s, cs) - 1 ELSE Len(s)

\* re.findall: a run of one or more non-terminators, then at most one terminator
RECURSIVE FindPieces(_)
FindPieces(s) ==
    IF s = <<>> THEN <<>>
    ELSE LET n == RunOutside(s, ScriptTerminators)
         IN IF n = 0 THEN FindPieces(Tail(s))
            ELSE IF n < Len(s)
                 THEN <<SubSeq(s, 1, n + 1)>> \o FindPieces(Drop(s, n + 1))
                 ELSE <<s>>

\* split_sentences(paragraph) of src/scripts/generate_slides.py
split_sentences(paragraph) ==
    LET p == Strip(paragraph)
        pieces == FindPieces(p)
        sentences == NonEmpty([i \in 1..Len(pieces) |-> Strip(pieces[i])])
    IN IF p = <<>> THEN <<>>
       ELSE IF sentences # <<>> THEN sentences ELSE <<p>>

\* re.match of digits, a dot, whitespace: the length of the match, 0 for none
NumberedPrefix(s) ==
    LET d == IF HasOut(s, Digits) THEN FirstOut(s, Digits) - 1 ELSE Len(s)
        rest == Drop(s, d + 1)
        w == Len(rest) - Len(LStripChars(rest, Whitespace))
    IN IF d >= 1 /\ d < Len(s) /\ s[d + 1] = "." /\ w >= 1 THEN d + 1 + w ELSE 0

\* merge_lines: the loop over the lines; st = [paragraphs, buffer]
RECURSIVE MergeLoop(_, _, _)
MergeLoop(lines, paragraphs, buffer) ==
    IF lines = <<>>
    THEN IF buffer # <<>> THEN Append(paragraphs, Join(buffer, <<" ">>))
         ELSE paragraphs
    ELSE LET stripped == Strip(RStrip(lines[1]))
             flushed == IF buffer # <<>>
                        THEN Append(paragraphs, Join(buffer, <<" ">>))
                        ELSE paragraphs
             rest == Tail(lines)
         IN IF stripped = <<>> THEN MergeLoop(rest, flushed, <<>>)
            ELSE IF StartsWith(stripped, <<"-", " ">>)
                    \/ StartsWith(stripped, <<"*", " ">>)
                 THEN MergeLoop(rest, Append(flushed, Strip(Drop(stripped, 2))), <<>>)
            ELSE IF NumberedPrefix(stripped) # 0
                 THEN MergeLoop(rest,
                          Append(flushed, Drop(stripped, NumberedPrefix(stripped))),
                          <<>>)
            ELSE LET s2 == IF StartsWith(stripped, <<">">>)
                           THEN Strip(LStripChars(stripped, {">"}))
                           ELSE stripped
                 IN MergeLoop(rest, paragraphs, Append(buffer, s2))

\* merge_lines(lines)
merge_lines(lines) ==
    LET paragraphs == MergeLoop(lines, <<>>, <<>>)
    IN NonEmpty([i \in 1..Len(paragraphs) |-> clean_text(paragraphs[i])])

\* the inner loop of to_bullets: the candidates of one paragraph's sentences
SentenceBullets(ss) == NonEmpty([j \in 1..Len(ss) |-> clean_text(ss[j])])

\* the outer loop of to_bullets over the merged paragraphs
ParagraphBullets(ps) ==
    Flatten([i \in 1..Len(ps) |-> SentenceBullets(split_sentences(ps[i]))])

\* to_bullets: every candidate, before the slice [:max_items]
to_bullets_all(lines) == ParagraphBullets(merge_lines(lines))

-----------------------------------------------------------------------------
(* Inputs of build_slides: the sections parse_report can return *)

MaxSections == 9

Sub(title, lines) == [title |-> title, lines |-> lines]

\* intro of six sentences; seven subsections, the second without bullets:
\* 6 slides (the intro and 5 subsections)
SectionA ==
    [title |-> <<"A">>,
     intro_lines |-> << <<"a", CJK_STOP, "b", "!", "c", "?", "d", "!", "e", "!", "f">>,
                        <<>> >>,
     subsections |-> << Sub(<<"A", "1">>, << <<"p">> >>),
                        Sub(<<"A", "2">>, << <<>>, <<" ">> >>),
                        Sub(<<"A", "3">>, << <<"-", " ", "q">> >>),
                        Sub(<<"A", "4">>, << <<"r">>, <<"s">> >>),
                        Sub(<<"A", "5">>, << <<"1", ".", " ", "t">> >>),
                        Sub(<<"A", "6">>, << <<"u", "?">> >>),
                        Sub(<<"A", "7">>, << <<"v">> >>) >>]

\* an intro that cleans to nothing; five subsections, the second without
\* bullets: 4 slides
SectionE ==
    [title |-> <<"E">>,
     intro_lines |-> << <<>>, <<"*", "*">>, <<"#">> >>,
     subsections |-> << Sub(<<"E", "1">>, << <<"*", "*", "w", "*", "*">> >>),
                        Sub(<<"E", "2">>, << <<" ">> >>),
                        Sub(<<"E", "3">>, << <<">", " ", "x">> >>),
                        Sub(<<"E", "4">>, << <<"y", CJK_STOP, "y", CJK_STOP>> >>),
                        Sub(<<"E", "5">>, <<>>) >>]

SectionShapes == {SectionA, SectionE}

\* every list of lines held by a section or subsection of the inputs
ShapeLines ==
    UNION {{sec.intro_lines} \cup {sec.subsections[i].lines : i \in 1..Len(sec.subsections)}
           : sec \in SectionShapes}

SectionLists == UNION {[1..n -> SectionShapes] : n \in 0..MaxSections}

-----------------------------------------------------------------------------
\* to_bullets_all on the lines of the inputs, evaluated once
BulletsOf == [ls \in ShapeLines |-> to_bullets_all(ls)]

\* to_bullets(lines, max_items)
to_bullets(lines, max_items) ==
    Take(IF lines \in ShapeLines THEN BulletsOf[lines] ELSE to_bullets_all(lines),
         max_items)

\* Section.intro_bullets()
intro_bullets(section) == to_bullets(section.intro_lines, 5)
\* Subsection.bullets()
bullets(subsection) == to_bullets(subsection.lines, 6)

-----------------------------------------------------------------------------
(* src/scripts/generate_slides.py: build_slides *)

\* A literal text of the source is written as a string of one token naming it.
CoverSlide ==
    [layout |-> "cover", title |-> <<"cover.title">>,
     subtitle |-> <<"cover.subtitle">>,
     bullets |-> <<<<"cover.b1">>, <<"cover.b2">>, <<"cover.b3">>>>]

DefaultOverviewBullets == <<<<"overview.b1">>, <<"overview.b2">>, <<"overview.b3">>>>

\* overview_bullets: the first section's intro bullets [:4], or the defaults
OverviewBullets(own) == IF own # <<>> THEN own ELSE DefaultOverviewBullets

OverviewSlide(secs) ==
    [layout |-> "content", title |-> <<"overview.title">>,
     subtitle |-> <<"overview.subtitle">>,
     bullets |-> OverviewBullets(IF secs # <<>>
                                 THEN Take(intro_bullets(secs[1]), 4)
                                 ELSE <<>>)]

\* f"{idx + 1:02d}. {section.title}"
AgendaBullet(idx, title) == Fmt02(idx + 1) \o <<".", " ">> \o title

\* the agenda slide without the last section
AgendaSlide_short(secs) ==
    [layout |-> "agenda", title |-> <<"agenda.title">>,
     subtitle |-> <<"agenda.subtitle">>,
     bullets |-> [i \in 1..(Len(secs) - 1) |-> AgendaBullet(i - 1, secs[i].title)]]

AgendaSlide(secs) ==
    [layout |-> "agenda", title |-> <<"agenda.title">>,
     subtitle |-> <<"agenda.subtitle">>,
     bullets |-> [i \in 1..Len(secs) |-> AgendaBullet(i - 1, secs[i].title)]]

\* f"板块 {index:02d}"
SectionLabel(idx) == <<"U+677F", "U+5757", " ">> \o Fmt02(idx)

\* the section-intro slide, ib = section.intro_bullets()
IntroSlide(section, idx, ib) ==
    [layout |-> "section-intro", title |-> section.title,
     subtitle |-> SectionLabel(idx), bullets |-> ib]

\* sub_slide, b = subsection.bullets()
SubSlide(section, subsection, b) ==
    [layout |-> "content", title |-> subsection.title,
     subtitle |-> section.title, bullets |-> b]

synthesis_templates ==
    << [layout |-> "summary", title |-> <<"synthesis1.title">>,
        subtitle |-> <<"synthesis.subtitle">>,
        bullets |-> <<<<"s1.b1">>, <<"s1.b2">>, <<"s1.b3">>, <<"s1.b4">>>>],
       [layout |-> "summary", title |-> <<"synthesis2.title">>,
        subtitle |-> <<"synthesis.subtitle">>,
        bullets |-> <<<<"s2.b1">>, <<"s2.b2">>, <<"s2.b3">>, <<"s2.b4">>>>],
       [layout |-> "summary", title |-> <<"synthesis3.title">>,
        subtitle |-> <<"synthesis.subtitle">>,
        bullets |-> <<<<"s3.b1">>, <<"s3.b2">>, <<"s3.b3">>, <<"s3.b4">>>>] >>

conclusion ==
    [layout |-> "conclusion", title |-> <<"conclusion.title">>,
     subtitle |-> <<"Action Items">>,
     bullets |-> <<<<"c.b1">>, <<"c.b2">>, <<"c.b3">>, <<"c.b4">>, <<"c.b5">>>>]

\* try_add with the budget test off by one (> for >=)
try_add_late(sl, slide) ==
    IF Len(sl) > TOTAL_SLIDES - 1
    THEN [ok |-> FALSE, slides |-> sl]
    ELSE [ok |-> TRUE, slides |-> Append(sl, slide)]

\* try_add(slide) on the deck sl: [ok |-> the returned bool, slides |-> the deck]
try_add(sl, slide) ==
    IF Len(sl) >= TOTAL_SLIDES - 1
    THEN [ok |-> FALSE, slides |-> sl]
    ELSE [ok |-> TRUE, slides |-> Append(sl, slide)]

\* the loop over section.subsections, entered with deck sl and count sub_count
RECURSIVE SubsectionLoop(_, _, _, _)
RECURSIVE SubsectionIter(_, _, _, _, _)
SubsectionLoop(sl, section, subs, sub_count) ==
    IF subs = <<>> THEN sl
    ELSE IF sub_count >= MAX_SECTION_SUBSLIDES THEN sl
    ELSE SubsectionIter(sl, section, subs, sub_count, bullets(subs[1]))

\* the iteration with sub_count incremented for a subsection without bullets too
SubsectionIter_countEmpty(sl, section, subs, sub_count, b) ==
    IF b = <<>> THEN SubsectionLoop(sl, section, Tail(subs), sub_count + 1)
    ELSE LET r == try_add(sl, SubSlide(section, subs[1], b))
         IN IF ~r.ok THEN sl
            ELSE SubsectionLoop(r.slides, section, Tail(subs), sub_count + 1)

\* the rest of one iteration, b = subsection.bullets()
SubsectionIter(sl, section, subs, sub_count, b) ==
    IF b = <<>> THEN SubsectionLoop(sl, section, Tail(subs), sub_count)
    ELSE LET r == try_add(sl, SubSlide(section, subs[1], b))
         IN IF ~r.ok THEN sl
            ELSE SubsectionLoop(r.slides, section, Tail(subs), sub_count + 1)

\* the end of one iteration of the section loop, s2 the deck after the
\* subsections: `if len(slides) >= TOTAL_SLIDES - 1: break`
SectionEnd(s2) == [slides |-> s2, brk |-> Len(s2) >= TOTAL_SLIDES - 1]

\* one iteration of the section loop, ib = section.intro_bullets():
\* [slides |-> the deck after it, brk |-> whether the loop was left by break]
SectionIter(sl, section, idx, ib) ==
    LET r == IF ib # <<>>
             THEN try_add(sl, IntroSlide(section, idx, ib))
             ELSE [ok |-> TRUE, slides |-> sl]
    IN IF ~r.ok THEN [slides |-> sl, brk |-> TRUE]
       ELSE SectionEnd(SubsectionLoop(r.slides, section, section.subsections, 0))

SectionBody(sl, section, idx) ==
    SectionIter(sl, section, idx, intro_bullets(section))

-----------------------------------------------------------------------------
(* build_slides as a state machine *)

BsIdle ==
    /\ sections = <<>> /\ slides = <<>> /\ pc = "idle"
    /\ index = 0 /\ template_index = 0 /\ m = 0

PgIdle ==
    /\ pg_title = <<>> /\ pg_items = <<>> /\ pg_size = 0
    /\ pg_valid = <<>> /\ pg_index = 0 /\ pg_out = <<>> /\ pg_pc = "idle"

CoIdle ==
    /\ co_prog = "idle" /\ co_lines = <<>> /\ co_max = 0 /\ co_pc = "idle"
    /\ co_out = <<>> /\ sl_points = <<>> /\ sl_buffer = <<>>
    /\ sl_list_buffer = <<>> /\ sl_i = 0 /\ sl_cleaned = <<>> /\ sl_seen = {}
    /\ pp_combined = <<>>

UbIdle ==
    /\ ub_prog = "idle" /\ ub_input = <<>> /\ ub_parsed = <<>>
    /\ ub_slides = <<>> /\ ub_i = 0 /\ ub_j = 0 /\ ub_pc = "idle"

TxIdle ==
    /\ tx_fn = "idle" /\ tx_in = <<>> /\ tx_out = <<>> /\ tx_twice = <<>>
    /\ tx_pc = "idle"

PrIdle ==
    /\ pr_lines = <<>> /\ pr_i = 0 /\ pr_sections = <<>>
    /\ pr_current_section = 0 /\ pr_current_subsection = <<>> /\ pr_pc = "idle"

GsIdle ==
    /\ gs_siblings = <<>> /\ gs_i = 0 /\ gs_fragments = <<>> /\ gs_out = <<>>
    /\ gs_pc = "idle"

GiIdle ==
    /\ gi_blocks = <<>> /\ gi_i = 0 /\ gi_intro_texts = <<>> /\ gi_out = <<>>
    /\ gi_pc = "idle"

Init ==
    /\ sections \in SectionLists
    /\ slides = <<>>
    /\ pc = "cover"
    /\ index = 1
    /\ template_index = 0
    /\ m = 0
    /\ PgIdle /\ CoIdle /\ UbIdle /\ TxIdle /\ PrIdle /\ GsIdle /\ GiIdle

AddCover ==
    /\ pc = "cover"
    /\ slides' = try_add(slides, CoverSlide).slides
    /\ pc' = "overview"
    /\ UNCHANGED <<sections, index, template_index, m, notBs>>

AddOverview ==
    /\ pc = "overview"
    /\ slides' = try_add(slides, OverviewSlide(sections)).slides
    /\ pc' = "agenda"
    /\ UNCHANGED <<sections, index, template_index, m, notBs>>

AddAgenda ==
    /\ pc = "agenda"
    /\ slides' = try_add(slides, AgendaSlide(sections)).slides
    /\ pc' = "content"
    /\ UNCHANGED <<sections, index, template_index, m, notBs>>

\* the effect of one iteration on the state, r = SectionBody(...)
ContentApply(r) ==
    /\ slides' = r.slides
    /\ IF r.brk
       THEN pc' = "synthesis" /\ m' = Len(r.slides) /\ index' = index
       ELSE pc' = "content" /\ m' = m /\ index' = index + 1

\* one iteration of `for index, section in enumerate(sections, start=1)`
ContentStep ==
    /\ pc = "content"
    /\ index <= Len(sections)
    /\ ContentApply(SectionBody(slides, sections[index], index))
    /\ UNCHANGED <<sections, template_index, notBs>>

\* the section loop ends because the sections are exhausted
ContentDone ==
    /\ pc = "content"
    /\ index > Len(sections)
    /\ pc' = "synthesis"
    /\ m' = Len(slides)
    /\ UNCHANGED <<sections, slides, index, template_index, notBs>>

\* one iteration of the synthesis while loop
SynthesisStep ==
    /\ pc = "synthesis"
    /\ Len(slides) < TOTAL_SLIDES - 1
    /\ template_index < Len(synthesis_templates)
    /\ slides' = Append(slides, synthesis_templates[template_index + 1])
    /\ template_index' = template_index + 1
    /\ UNCHANGED <<sections, pc, index, m, notBs>>

SynthesisDone ==
    /\ pc = "synthesis"
    /\ ~(Len(slides) < TOTAL_SLIDES - 1 /\ template_index < Len(synthesis_templates))
    /\ pc' = "pad"
    /\ UNCHANGED <<sections, slides, index, template_index, m, notBs>>

\* the padding loop duplicating the first slide (slides[0]) for the last
PadSlide_first(sl) == sl[1]

\* slides[-1]
PadSlide(sl) == sl[Len(sl)]

\* one iteration of the padding while loop
PadStep ==
    /\ pc = "pad"
    /\ Len(slides) < TOTAL_SLIDES - 1
    /\ slides # <<>>
    /\ slides' = Append(slides, PadSlide(slides))
    /\ UNCHANGED <<sections, pc, index, template_index, m, notBs>>

PadDone ==
    /\ pc = "pad"
    /\ ~(Len(slides) < TOTAL_SLIDES - 1 /\ slides # <<>>)
    /\ pc' = "conclusion"
    /\ UNCHANGED <<sections, slides, index, template_index, m, notBs>>

\* slides.append(conclusion), then the length check and the return
AddConclusion ==
    /\ pc = "conclusion"
    /\ slides' = Append(slides, conclusion)
    /\ pc' = IF Len(slides') # TOTAL_SLIDES THEN "ValueError" ELSE "return"
    /\ UNCHANGED <<sections, index, template_index, m, notBs>>

Next ==
    \/ AddCover \/ AddOverview \/ AddAgenda
    \/ ContentStep \/ ContentDone
    \/ SynthesisStep \/ SynthesisDone
    \/ PadStep \/ PadDone
    \/ AddConclusion

Spec == Init /\ [][Next]_vars

-----------------------------------------------------------------------------
(* Claims about build_slides *)

\* build_slides has ended, by return or by the ValueError
BsEnded == pc \in {"return", "ValueError"}

\* the slots build_slides fills before the conclusion slide: N - 1
Budget == TOTAL_SLIDES - 1

\* C1: build_slides returns a deck of exactly TOTAL_SLIDES = 50 slides for
\* every list of sections; the ValueError of the length check is never raised.
C1_ExactlyFiftySlides ==
    /\ pc # "ValueError"
    /\ BsEnded => Len(slides) = TOTAL_SLIDES

\* a deck was returned for nine sections with more content than fits
C1_Witness ==
    /\ pc = "return"
    /\ Len(sections) = 9
    /\ \A i \in 1..Len(sections) : sections[i] = SectionA

\* C2: in every returned deck slide 1 is the cover, slide 2 the overview/goals
\* slide, slide 3 the agenda slide with one bullet per section, in document
\* order, that carries the section's title; the conclusion slide is the last
\* slide and occurs exactly once.
C2_FixedSlides ==
    pc = "return" =>
        /\ Len(slides) >= 4
        /\ slides[1].layout = "cover"
        /\ slides[2].layout = "content" /\ slides[2].title = <<"overview.title">>
        /\ slides[3].layout = "agenda"
        /\ Len(slides[3].bullets) = Len(sections)
        /\ \A i \in 1..Len(sections) :
               EndsWith(slides[3].bullets[i], <<" ">> \o sections[i].title)
        /\ slides[Len(slides)].layout = "conclusion"
        /\ Cardinality({i \in 1..Len(slides) : slides[i].layout = "conclusion"}) = 1

\* a deck was returned for sections with differing titles
C2_Witness ==
    /\ pc = "return"
    /\ Len(sections) >= 3
    /\ sections[1].title # sections[2].title
    /\ sections[2].title = sections[3].title

\* the slides of one section when no budget applies: the intro slide if the
\* intro has bullets, then the first 5 subsections that have bullets
SectionContent(section, idx) ==
    (IF intro_bullets(section) # <<>>
     THEN <<IntroSlide(section, idx, intro_bullets(section))>> ELSE <<>>)
    \o LET withBullets == SelectSeq(section.subsections,
                                    LAMBDA sub : bullets(sub) # <<>>)
           kept == Take(withBullets, MAX_SECTION_SUBSLIDES)
       IN [j \in 1..Len(kept) |-> SubSlide(section, kept[j], bullets(kept[j]))]

\* the content slides of all sections, in document order
AllContent(secs) == Flatten([i \in 1..Len(secs) |-> SectionContent(secs[i], i)])

\* C3: the content slides after the agenda slide are exactly the longest
\* prefix of AllContent(sections) that fits in the budget of N - 1 = 49 slots;
\* nothing else of the sections follows it.
C3_ContentIsLongestPrefix ==
    pc = "return" =>
        LET all == AllContent(sections)
            k == Min(Len(all), Budget - 3)
        IN /\ m = 3 + k
           /\ SubSeq(slides, 4, 3 + k) = SubSeq(all, 1, k)
           /\ \A i \in (4 + k)..Len(slides) :
                  slides[i].layout \in {"summary", "conclusion"}

\* a returned deck whose content was cut inside the eighth section, which
\* followed sections with a skipped subsection and a dropped sixth one, and
\* whose ninth section added nothing
C3_Witness ==
    /\ pc = "return"
    /\ m = Budget
    /\ Len(AllContent(sections)) > Budget - 3
    /\ sections[1] = SectionA
    /\ index < Len(sections)

\* C4: with m < 49 slides after the content, the next min(3, 49 - m) slides
\* are the synthesis slides in their order and every later slot up to 49 holds
\* a duplicate of the slide that was last when padding began; with m = 49 the
\* deck holds no synthesis and no padding slide.
C4_SynthesisThenPadding ==
    pc = "return" =>
        LET ns == Min(Len(synthesis_templates), Budget - m)
        IN /\ m <= Budget
           /\ SubSeq(slides, m + 1, m + ns) = SubSeq(synthesis_templates, 1, ns)
           /\ \A i \in (m + ns + 1)..Budget : slides[i] = slides[m + ns]
           /\ m = Budget =>
                  /\ Len(slides) = m + 1
                  /\ \A i \in 1..Len(slides) : slides[i].layout # "summary"

\* a returned deck that needed all synthesis slides and padding
C4_Witness ==
    /\ pc = "return"
    /\ m < Budget - 3
    /\ sections # <<>>

-----------------------------------------------------------------------------
(* src/convert_doubao_html_to_ppt.py: the paginator add_bullet_slides *)

DEFAULT_CHUNK_SIZE == 8

\* chunk_list with the slice one item short (items[idx : idx + size - 1])
chunk_at_short(items, size, idx) == SubSeq(items, idx + 1, Min(idx + size - 1, Len(items)))

\* the chunk chunk_list yields for idx: items[idx : idx + size]
chunk_at(items, size, idx) == SubSeq(items, idx + 1, Min(idx + size, Len(items)))

\* total_chunks = (len(valid_items) + chunk_size - 1) // chunk_size
total_chunks(valid_items, chunk_size) ==
    (Len(valid_items) + chunk_size - 1) \div chunk_size

\* slide_title with the marker counted from 0
slide_title_zero(title, idx, total) ==
    IF total = 1 THEN title
    ELSE title \o <<CJK_LPAREN>> \o ToStr(idx - 1) \o <<"/">> \o ToStr(total)
               \o <<CJK_RPAREN>>

\* slide_title = title if total_chunks == 1 else f"{title}（{index}/{total_chunks}）"
slide_title(title, idx, total) ==
    IF total = 1 THEN title
    ELSE title \o <<CJK_LPAREN>> \o ToStr(idx) \o <<"/">> \o ToStr(total)
               \o <<CJK_RPAREN>>

(* Inputs: the bullet lists the callers pass. Every caller passes non-empty  *)
(* strings (section titles kept `if title`, post_process_bullets output), so *)
(* the filter valid_items keeps every item of these inputs.                  *)
MaxItems == 7
MaxChunkSize == 5

PgBullets == {<<"A">>, <<"B">>}

\* the bullets of the worked example A..G
ExampleBullets == <<<<"A">>, <<"B">>, <<"C">>, <<"D">>, <<"E">>, <<"F">>, <<"G">>>>

PgItemLists == UNION {[1..n -> PgBullets] : n \in 0..MaxItems} \cup {ExampleBullets}

PgChunkSizes == (1..MaxChunkSize) \cup {DEFAULT_CHUNK_SIZE}

PgTitles == {<<"T", "i", "t", "l", "e">>}

InitPaginate ==
    /\ BsIdle /\ CoIdle /\ UbIdle /\ TxIdle /\ PrIdle /\ GsIdle /\ GiIdle
    /\ pg_title \in PgTitles
    /\ pg_items \in PgItemLists
    /\ pg_size \in PgChunkSizes
    /\ pg_valid = <<>>
    /\ pg_index = 0
    /\ pg_out = <<>>
    /\ pg_pc = "filter"

\* valid_items = [item for item in items if item]; return when it is empty
PgFilter ==
    /\ pg_pc = "filter"
    /\ pg_valid' = NonEmpty(pg_items)
    /\ pg_index' = 1
    /\ pg_pc' = IF NonEmpty(pg_items) = <<>> THEN "return" ELSE "loop"
    /\ UNCHANGED <<pg_title, pg_items, pg_size, pg_out, notPg>>

\* one iteration of the loop over enumerate(chunk_list(...), start=1):
\* add_single_bullet_slide(prs, slide_title, chunk)
PgEmit ==
    /\ pg_pc = "loop"
    /\ (pg_index - 1) * pg_size < Len(pg_valid)
    /\ pg_out' = Append(pg_out,
           [title |-> slide_title(pg_title, pg_index,
                                  total_chunks(pg_valid, pg_size)),
            bullets |-> chunk_at(pg_valid, pg_size, (pg_index - 1) * pg_size)])
    /\ pg_index' = pg_index + 1
    /\ UNCHANGED <<pg_title, pg_items, pg_size, pg_valid, pg_pc, notPg>>

\* range(0, len(items), size) is exhausted
PgReturn ==
    /\ pg_pc = "loop"
    /\ (pg_index - 1) * pg_size >= Len(pg_valid)
    /\ pg_pc' = "return"
    /\ UNCHANGED <<pg_title, pg_items, pg_size, pg_valid, pg_index, pg_out, notPg>>

NextPaginate == PgFilter \/ PgEmit \/ PgReturn

SpecPaginate == InitPaginate /\ [][NextPaginate]_vars

-----------------------------------------------------------------------------
(* Claims about add_bullet_slides *)

\* ceil(c / k): the least n with n * k >= c
CeilDiv(c, k) == CHOOSE n \in 0..c : n * k >= c /\ \A j \in 0..(n - 1) : j * k < c

\* C5: for c bullets and chunk size K >= 1 add_bullet_slides emits exactly
\* ceil(c / K) slides, each with at most K bullets, and the bullets of the
\* slides, concatenated in order, are the input list.
C5_Pagination ==
    pg_pc = "return" =>
        /\ Len(pg_out) = CeilDiv(Len(pg_items), pg_size)
        /\ \A i \in 1..Len(pg_out) : Len(pg_out[i].bullets) <= pg_size
        /\ Flatten([i \in 1..Len(pg_out) |-> pg_out[i].bullets]) = pg_items

\* 7 bullets were paginated with K = 3: three slides, the last one short
C5_Witness ==
    /\ pg_pc = "return"
    /\ Len(pg_items) = 7
    /\ pg_size = 3
    /\ Len(pg_out) = 3

\* C6: one chunk gives one slide with the base title; T > 1 chunks give
\* slides titled base title + "（i/T）" for i = 1..T, the first included;
\* bullets A..G with K = 5 give Title（1/2） with A..E and Title（2/2） with F, G.
C6_Titles ==
    pg_pc = "return" =>
        /\ Len(pg_items) <= pg_size =>
               \A i \in 1..Len(pg_out) : pg_out[i].title = pg_title
        /\ Len(pg_items) > pg_size =>
               \A i \in 1..Len(pg_out) :
                   pg_out[i].title =
                       pg_title \o <<CJK_LPAREN>> \o ToStr(i) \o <<"/">>
                                \o ToStr(Len(pg_out)) \o <<CJK_RPAREN>>
        /\ (pg_items = ExampleBullets /\ pg_size = 5) =>
               pg_out = << [title |-> pg_title \o <<CJK_LPAREN, "1", "/", "2", CJK_RPAREN>>,
                            bullets |-> SubSeq(ExampleBullets, 1, 5)],
                           [title |-> pg_title \o <<CJK_LPAREN, "2", "/", "2", CJK_RPAREN>>,
                            bullets |-> SubSeq(ExampleBullets, 6, 7)] >>

\* the worked example was paginated
C6_Witness ==
    /\ pg_pc = "return"
    /\ pg_items = ExampleBullets
    /\ pg_size = 5
    /\ Len(pg_out) = 2

-----------------------------------------------------------------------------
(* src/generate_slides.py: clean_line, split_sentences, summarise_lines *)

BACKSLASH == "U+005C"

\* the list markers of summarise_lines: * - and four bullet glyphs
BulletGlyphs == {"*", "-", "U+2022", "U+00B7", "U+25CF", "U+25CB"}

\* the Chinese numerals one to ten of the parenthesised-ordinal pattern
CJKNumerals == {"U+4E00", "U+4E8C", "U+4E09", "U+56DB", "U+4E94",
                "U+516D", "U+4E03", "U+516B", "U+4E5D", "U+5341"}

\* the longest bullet that is not re-split
MAX_POINT_LEN == 90

\* clean_line after the first strip, for a non-empty t
clean_line_body(t) ==
    Strip(CollapseSpaces(
        RemoveImages(
            ReplaceLinks(
                ReplaceAll(ReplaceAll(ReplaceAll(t, <<"*", "*">>, <<>>),
                                      <<BACKTICK>>, <<>>),
                           <<BACKSLASH, "*">>, <<>>),
                1),
            1)))

\* clean_line(text)
clean_line(text) == IF Strip(text) = <<>> THEN <<>> ELSE clean_line_body(Strip(text))

\* the sentence terminators of split_sentences in src/generate_slides.py
LineTerminators == {CJK_STOP, CJK_EXCL, CJK_QUES, CJK_SEMI}

\* re.split on the empty (or whitespace) match after every character of cs
RECURSIVE SplitAfter(_, _)
SplitAfter(s, cs) ==
    IF RunOutside(s, cs) >= Len(s) THEN <<s>>
    ELSE <<SubSeq(s, 1, RunOutside(s, cs) + 1)>>
             \o SplitAfter(Drop(s, RunOutside(s, cs) + 1), cs)

\* the parts of a split, stripped, the empty ones dropped
StrippedParts(parts) == NonEmpty([i \in 1..Len(parts) |-> Strip(parts[i])])

\* the sentences of a non-empty stripped paragraph p
sentences_or_paragraph(p, sentences) == IF sentences # <<>> THEN sentences ELSE <<p>>

\* split_sentences(paragraph) of src/generate_slides.py
split_sentences_md(paragraph) ==
    IF Strip(paragraph) = <<>> THEN <<>>
    ELSE sentences_or_paragraph(Strip(paragraph),
             StrippedParts(SplitAfter(Strip(paragraph), LineTerminators)))

\* the length of the longest prefix of s made of characters of cs
RunInside(s, cs) ==
    IF HasOut(s, cs) THEN FirstOut(s, cs) - 1 ELSE Len(s)

\* re.sub of a leading bullet glyph followed by whitespace
StripGlyph(t) ==
    IF Len(t) >= 2 /\ t[1] \in BulletGlyphs /\ t[2] \in Whitespace
    THEN LStripChars(Tail(t), Whitespace) ELSE t

\* re.sub of leading digits followed by "." or the enumeration comma
StripNumber(t) ==
    IF /\ RunInside(t, Digits) >= 1
       /\ RunInside(t, Digits) < Len(t)
       /\ t[RunInside(t, Digits) + 1] \in {".", CJK_ENUM}
    THEN LStripChars(Drop(t, RunInside(t, Digits) + 1), Whitespace) ELSE t

\* re.sub of a leading parenthesised ordinal
StripOrdinal(t) ==
    IF /\ t # <<>>
       /\ t[1] \in {CJK_LPAREN, "("}
       /\ RunInside(Tail(t), Digits \cup CJKNumerals) >= 1
       /\ RunInside(Tail(t), Digits \cup CJKNumerals) + 1 < Len(t)
       /\ t[RunInside(Tail(t), Digits \cup CJKNumerals) + 2] \in {")", CJK_RPAREN}
    THEN LStripChars(Drop(t, RunInside(Tail(t), Digits \cup CJKNumerals) + 2),
                     Whitespace)
    ELSE t

\* `stripped`: the three marker patterns applied in turn
StripMarkers(text) == StripOrdinal(StripNumber(StripGlyph(text)))

\* the loop of flush_buffer without its break
AppendSentences_all(points, sentences, max_points) == points \o NonEmpty(sentences)

\* the loop of flush_buffer: append the sentences until max_points is reached
RECURSIVE AppendSentences(_, _, _)
AppendSentences(points, sentences, max_points) ==
    IF sentences = <<>> THEN points
    ELSE IF sentences[1] = <<>>
         THEN AppendSentences(points, Tail(sentences), max_points)
    ELSE IF Len(points) + 1 >= max_points THEN Append(points, sentences[1])
    ELSE AppendSentences(Append(points, sentences[1]), Tail(sentences), max_points)

\* flush_buffer after the guard, joined = ' '.join(buffer).strip()
flush_joined(points, joined, max_points) ==
    IF joined = <<>> THEN points
    ELSE AppendSentences(points, split_sentences_md(clean_line(joined)), max_points)

\* flush_buffer(): the new value of points (buffer becomes empty)
flush_buffer(points, buffer, max_points) ==
    IF buffer = <<>> \/ Len(points) >= max_points THEN points
    ELSE flush_joined(points, Strip(Join(buffer, <<" ">>)), max_points)

\* flush_list_buffer after the guard, combined = clean_line of the joined items
flush_combined(points, combined) ==
    IF combined = <<>> THEN points ELSE Append(points, combined)

\* flush_list_buffer(): the new value of points (list_buffer becomes empty)
flush_list_buffer(points, list_buffer, max_points) ==
    IF list_buffer = <<>> \/ Len(points) >= max_points THEN points
    ELSE flush_combined(points,
             clean_line(Join(StrippedParts(list_buffer), <<CJK_SEMI>>)))

\* the state of the line loop
LineState(points, buffer, list_buffer, brk) ==
    [points |-> points, buffer |-> buffer, list_buffer |-> list_buffer, brk |-> brk]

\* an iteration that flushed the paragraph buffer (blank line or list item):
\* break when max_points is reached, else keep the item (if any)
after_flush(points, list_buffer, item, max_points) ==
    IF Len(points) >= max_points THEN LineState(points, <<>>, list_buffer, TRUE)
    ELSE LineState(points, <<>>,
                   IF item # <<>> THEN Append(list_buffer, item) ELSE list_buffer,
                   FALSE)

\* an iteration whose non-list line joins the paragraph buffer without the
\* flush of the list buffer
line_iter_no_flush(st, text, max_points) ==
    IF text = <<>>
    THEN after_flush(flush_buffer(st.points, st.buffer, max_points),
                     st.list_buffer, <<>>, max_points)
    ELSE IF text # StripMarkers(text)
    THEN after_flush(flush_buffer(st.points, st.buffer, max_points),
                     st.list_buffer, StripMarkers(text), max_points)
    ELSE LineState(st.points, Append(st.buffer, text), st.list_buffer, FALSE)

\* one iteration of `for raw in lines`, text = clean_line(raw)
line_iter(st, text, max_points) ==
    IF text = <<>>
    THEN after_flush(flush_buffer(st.points, st.buffer, max_points),
                     st.list_buffer, <<>>, max_points)
    ELSE IF text # StripMarkers(text)
    THEN after_flush(flush_buffer(st.points, st.buffer, max_points),
                     st.list_buffer, StripMarkers(text), max_points)
    ELSE LineState(flush_list_buffer(st.points, st.list_buffer, max_points),
                   Append(st.buffer, text), <<>>, FALSE)

\* the second flush after the line loop
final_flush_list(points, buffer, list_buffer, max_points) ==
    IF Len(points) < max_points
    THEN LineState(flush_list_buffer(points, list_buffer, max_points), buffer, <<>>, FALSE)
    ELSE LineState(points, buffer, list_buffer, FALSE)

\* the two flushes after the line loop, each guarded by len(points) < max_points
final_flush(st, max_points) ==
    IF Len(st.points) < max_points
    THEN final_flush_list(flush_buffer(st.points, st.buffer, max_points),
                          <<>>, st.list_buffer, max_points)
    ELSE final_flush_list(st.points, st.buffer, st.list_buffer, max_points)

\* point.endswith('：') or point.endswith(':')
ends_in_colon(point) == point # <<>> /\ point[Len(point)] \in {CJK_COLON, ":"}

\* one pass that also sets changed for a colon at the end of the last point
RECURSIVE colon_pass_flag_last(_, _, _, _)
colon_pass_flag_last(points, idx, merged_points, changed) ==
    IF idx > Len(points) THEN [points |-> merged_points, changed |-> changed]
    ELSE IF ends_in_colon(points[idx]) /\ idx + 1 <= Len(points)
    THEN colon_pass_flag_last(points, idx + 2,
                    Append(merged_points, points[idx] \o points[idx + 1]), TRUE)
    ELSE colon_pass_flag_last(points, idx + 1, Append(merged_points, points[idx]),
                    changed \/ ends_in_colon(points[idx]))

\* one pass of the colon loop over points[idx..]:
\* [points |-> merged_points, changed |-> changed]
RECURSIVE colon_pass(_, _, _, _)
colon_pass(points, idx, merged_points, changed) ==
    IF idx > Len(points) THEN [points |-> merged_points, changed |-> changed]
    ELSE IF ends_in_colon(points[idx]) /\ idx + 1 <= Len(points)
    THEN colon_pass(points, idx + 2,
                    Append(merged_points, points[idx] \o points[idx + 1]), TRUE)
    ELSE colon_pass(points, idx + 1, Append(merged_points, points[idx]), changed)

\* the secondary delimiters a long point is re-split on
Delimiters == {CJK_COMMA, CJK_ENUM, CJK_SEMI, ",", ";"}

\* re.split on every character of cs
RECURSIVE SplitOn(_, _)
SplitOn(s, cs) ==
    IF RunOutside(s, cs) >= Len(s) THEN <<s>>
    ELSE <<SubSeq(s, 1, RunOutside(s, cs))>>
             \o SplitOn(Drop(s, RunOutside(s, cs) + 1), cs)

\* candidate = f"{current}、{frag}" if current else frag
repack_candidate(current, frag) ==
    IF current # <<>> THEN current \o <<CJK_ENUM>> \o frag ELSE frag

\* the greedy repacking loop with the length test inverted (>= for <=)
RECURSIVE repack_overlong(_, _, _)
repack_overlong(fragments, current, merged) ==
    IF fragments = <<>>
    THEN IF current # <<>> THEN Append(merged, current) ELSE merged
    ELSE IF Len(repack_candidate(current, fragments[1])) >= MAX_POINT_LEN
    THEN repack_overlong(Tail(fragments), repack_candidate(current, fragments[1]), merged)
    ELSE repack_overlong(Tail(fragments), fragments[1],
                IF current # <<>> THEN Append(merged, current) ELSE merged)

\* the greedy repacking loop over the fragments: the list `merged`
RECURSIVE repack(_, _, _)
repack(fragments, current, merged) ==
    IF fragments = <<>>
    THEN IF current # <<>> THEN Append(merged, current) ELSE merged
    ELSE IF Len(repack_candidate(current, fragments[1])) <= MAX_POINT_LEN
    THEN repack(Tail(fragments), repack_candidate(current, fragments[1]), merged)
    ELSE repack(Tail(fragments), fragments[1],
                IF current # <<>> THEN Append(merged, current) ELSE merged)

\* the state of the cleaning loop
CleanState(cleaned_points, seen, brk) ==
    [cleaned_points |-> cleaned_points, seen |-> seen, brk |-> brk]

\* `for frag in merged` without the test `frag not in seen`
RECURSIVE add_fragments_unseen(_, _, _)
add_fragments_unseen(cs, merged, max_points) ==
    IF merged = <<>> \/ Len(cs.cleaned_points) >= max_points
    THEN CleanState(cs.cleaned_points, cs.seen, Len(cs.cleaned_points) >= max_points)
    ELSE IF merged[1] # <<>>
    THEN add_fragments_unseen(CleanState(Append(cs.cleaned_points, merged[1]),
                                  cs.seen \cup {merged[1]}, FALSE),
                       Tail(merged), max_points)
    ELSE add_fragments_unseen(cs, Tail(merged), max_points)

\* `for frag in merged`: append the unseen fragments until max_points, then
\* the break test after it
RECURSIVE add_fragments(_, _, _)
add_fragments(cs, merged, max_points) ==
    IF merged = <<>> \/ Len(cs.cleaned_points) >= max_points
    THEN CleanState(cs.cleaned_points, cs.seen, Len(cs.cleaned_points) >= max_points)
    ELSE IF merged[1] # <<>> /\ merged[1] \notin cs.seen
    THEN add_fragments(CleanState(Append(cs.cleaned_points, merged[1]),
                                  cs.seen \cup {merged[1]}, FALSE),
                       Tail(merged), max_points)
    ELSE add_fragments(cs, Tail(merged), max_points)

\* re.search(r'[，、；,;]', point)
has_delimiter(point) == \E i \in 1..Len(point) : point[i] \in Delimiters

\* one iteration of the cleaning loop, point stripped already
clean_iter(cs, point, max_points) ==
    IF point = <<>> \/ point \in cs.seen THEN cs
    ELSE IF Len(point) > MAX_POINT_LEN /\ has_delimiter(point)
    THEN add_fragments(cs,
             repack(StrippedParts(SplitOn(point, Delimiters)), <<>>, <<>>),
             max_points)
    ELSE CleanState(Append(cs.cleaned_points, point), cs.seen \cup {point},
                    Len(cs.cleaned_points) + 1 >= max_points)

\* point.strip('。；;') then point.strip()
strip_point(point) == Strip(StripChars(point, {CJK_STOP, CJK_SEMI, ";"}))

\* `for raw in lines` from line i on
RECURSIVE line_loop(_, _, _, _)
line_loop(st, lines, i, max_points) ==
    IF i > Len(lines) \/ st.brk THEN st
    ELSE line_loop(line_iter(st, clean_line(lines[i]), max_points),
                   lines, i + 1, max_points)

\* `while changed`: passes until one merges nothing
RECURSIVE colon_loop(_)
colon_again(r) == IF r.changed THEN colon_loop(r.points) ELSE r.points

colon_loop(points) == colon_again(colon_pass(points, 1, <<>>, FALSE))

\* `for point in points` of the cleaning loop from point j on
RECURSIVE clean_loop(_, _, _, _)
clean_loop(cs, points, j, max_points) ==
    IF j > Len(points) \/ cs.brk THEN cs.cleaned_points
    ELSE clean_loop(clean_iter(cs, strip_point(points[j]), max_points),
                    points, j + 1, max_points)

\* summarise_lines(lines, max_points)
summarise_lines(lines, max_points) ==
    clean_loop(CleanState(<<>>, {}, FALSE),
               colon_loop(final_flush(
                   line_loop(LineState(<<>>, <<>>, <<>>, FALSE), lines, 1, max_points),
                   max_points).points),
               1, max_points)

-----------------------------------------------------------------------------
(* src/convert_doubao_html_to_ppt.py: clean_text, post_process_bullets *)

\* the longest label and the shortest explanation post_process_bullets merges
MAX_LABEL_LEN == 12

MIN_EXPLANATION_LEN == 15

\* clean_text(value) of src/convert_doubao_html_to_ppt.py
clean_text_html(value) == Strip(CollapseSpaces(value))

\* cleaned = [clean_text(item) for item in items if clean_text(item)]
cleaned_items(items) == NonEmpty([i \in 1..Len(items) |-> clean_text_html(items[i])])

\* re.search of a sentence terminator at the end of current
ends_in_terminator(current) ==
    current # <<>> /\ current[Len(current)] \in {CJK_STOP, CJK_EXCL, CJK_QUES, "!", "?"}

\* the label test of the combining loop
is_label(current, nxt) ==
    /\ Len(current) <= MAX_LABEL_LEN
    /\ ~ends_in_terminator(current)
    /\ Len(nxt) > MIN_EXPLANATION_LEN

\* the combining loop without the skip of the consumed candidate
RECURSIVE combine_no_skip(_, _, _)
combine_no_skip(cleaned, idx, combined) ==
    IF idx > Len(cleaned) THEN combined
    ELSE IF idx + 1 <= Len(cleaned) /\ is_label(cleaned[idx], cleaned[idx + 1])
    THEN combine_no_skip(cleaned, idx + 1,
                 Append(combined, cleaned[idx] \o <<CJK_COLON>> \o cleaned[idx + 1]))
    ELSE combine_no_skip(cleaned, idx + 1, Append(combined, cleaned[idx]))

\* the combining loop of post_process_bullets from idx on
RECURSIVE combine(_, _, _)
combine(cleaned, idx, combined) ==
    IF idx > Len(cleaned) THEN combined
    ELSE IF idx + 1 <= Len(cleaned) /\ is_label(cleaned[idx], cleaned[idx + 1])
    THEN combine(cleaned, idx + 2,
                 Append(combined, cleaned[idx] \o <<CJK_COLON>> \o cleaned[idx + 1]))
    ELSE combine(cleaned, idx + 1, Append(combined, cleaned[idx]))

\* the de-duplication loop of post_process_bullets
RECURSIVE dedupe(_, _, _)
dedupe(items, deduped, seen) ==
    IF items = <<>> THEN deduped
    ELSE IF items[1] \notin seen
    THEN dedupe(Tail(items), Append(deduped, items[1]), seen \cup {items[1]})
    ELSE dedupe(Tail(items), deduped, seen)

\* post_process_bullets(items)
post_process_bullets(items) == dedupe(combine(cleaned_items(items), 1, <<>>), <<>>, {})

-----------------------------------------------------------------------------
(* Inputs of the consolidators *)

MaxLines == 3
MaxPoints == 3
MaxPpItems == 4

\* the string of n characters c
Rep(c, n) == [i \in 1..n |-> c]

\* a paragraph of two equal sentences
LnDup == <<"x", CJK_STOP, " ", "x", CJK_STOP>>
\* a list item that ends in a colon
LnItem == <<"-", " ", "i", ":">>
\* a line that ends in a colon
LnLabel == <<"k", CJK_COLON>>
\* 101 characters, two equal fragments of 50
LnLongTwice == Rep("a", 50) \o <<CJK_COMMA>> \o Rep("a", 50)
\* 102 characters, fragments of 30, 30 and 40
LnLongThree == Rep("a", 30) \o <<CJK_COMMA>> \o Rep("b", 30) \o <<",">> \o Rep("c", 40)
\* 91 characters, no delimiter
LnLongPlain == Rep("c", 91)

SlLineAlphabet ==
    {<<>>, <<"x">>, LnDup, LnItem, LnLabel, LnLongTwice, LnLongThree, LnLongPlain}

SlInputs == UNION {[1..n -> SlLineAlphabet] : n \in 0..MaxLines}

\* the texts extract_texts hands to post_process_bullets: a short label, a
\* label that ends a sentence, an explanation of 16 characters, a string of
\* 13 characters, a blank
PpItemAlphabet == {<<"L", "b">>, <<"Q", "?">>, Rep("n", 16), Rep("m", 13), <<" ">>}

PpInputs == UNION {[1..n -> PpItemAlphabet] : n \in 0..MaxPpItems}

\* the lines of a Section or Subsection handed to to_bullets
TbLineAlphabet ==
    {<<>>, <<"y">>, <<"x", CJK_STOP, "x", CJK_STOP>>, <<"-", " ", "x", CJK_STOP>>}

TbInputs == UNION {[1..n -> TbLineAlphabet] : n \in 0..MaxLines}

-----------------------------------------------------------------------------
(* The consolidators as a state machine *)

InitConsolidate ==
    /\ BsIdle /\ PgIdle /\ UbIdle /\ TxIdle /\ PrIdle /\ GsIdle /\ GiIdle
    /\ \/ /\ co_prog = "summarise_lines"
          /\ co_lines \in SlInputs
          /\ co_max \in 1..MaxPoints
          /\ co_pc = "lines"
       \/ /\ co_prog = "post_process_bullets"
          /\ co_lines \in PpInputs
          /\ co_max = 0
          /\ co_pc = "combine"
       \/ /\ co_prog = "to_bullets"
          /\ co_lines \in TbInputs
          /\ co_max \in 1..MaxPoints
          /\ co_pc = "call"
    /\ co_out = <<>>
    /\ sl_points = <<>> /\ sl_buffer = <<>> /\ sl_list_buffer = <<>>
    /\ sl_i = 1 /\ sl_cleaned = <<>> /\ sl_seen = {}
    /\ pp_combined = <<>>

\* the assignments of one iteration of the line loop
SlLineApply(st) ==
    /\ sl_points' = st.points
    /\ sl_buffer' = st.buffer
    /\ sl_list_buffer' = st.list_buffer
    /\ sl_i' = sl_i + 1
    /\ co_pc' = IF st.brk THEN "flush" ELSE "lines"

\* one iteration of `for raw in lines`
SlLine ==
    /\ co_prog = "summarise_lines" /\ co_pc = "lines"
    /\ sl_i <= Len(co_lines)
    /\ SlLineApply(line_iter(LineState(sl_points, sl_buffer, sl_list_buffer, FALSE),
                             clean_line(co_lines[sl_i]), co_max))
    /\ UNCHANGED <<co_prog, co_lines, co_max, co_out, sl_cleaned, sl_seen,
                   pp_combined, notCo>>

\* the assignments of the flushes after the line loop
SlFlushApply(st) ==
    /\ sl_points' = st.points
    /\ sl_buffer' = st.buffer
    /\ sl_list_buffer' = st.list_buffer

\* the two guarded flushes after the line loop (left by break or exhausted)
SlFinalFlush ==
    /\ co_prog = "summarise_lines"
    /\ co_pc = "flush" \/ (co_pc = "lines" /\ sl_i > Len(co_lines))
    /\ SlFlushApply(final_flush(LineState(sl_points, sl_buffer, sl_list_buffer, FALSE),
                                co_max))
    /\ co_pc' = "colon"
    /\ UNCHANGED <<co_prog, co_lines, co_max, co_out, sl_i, sl_cleaned, sl_seen,
                   pp_combined, notCo>>

\* the assignments of one pass of `while changed`
SlColonApply(r) ==
    /\ sl_points' = r.points
    /\ co_pc' = IF r.changed THEN "colon" ELSE "clean"
    /\ sl_i' = IF r.changed THEN sl_i ELSE 1

\* one pass of `while changed`
SlColonPass ==
    /\ co_prog = "summarise_lines" /\ co_pc = "colon"
    /\ SlColonApply(colon_pass(sl_points, 1, <<>>, FALSE))
    /\ UNCHANGED <<co_prog, co_lines, co_max, co_out, sl_buffer, sl_list_buffer,
                   sl_cleaned, sl_seen, pp_combined, notCo>>

\* the assignments of one iteration of the cleaning loop; break returns
SlCleanApply(cs) ==
    /\ sl_cleaned' = cs.cleaned_points
    /\ sl_seen' = cs.seen
    /\ sl_i' = sl_i + 1
    /\ co_pc' = IF cs.brk THEN "return" ELSE "clean"
    /\ co_out' = IF cs.brk THEN cs.cleaned_points ELSE co_out

\* one iteration of `for point in points` of the cleaning loop
SlCleanPoint ==
    /\ co_prog = "summarise_lines" /\ co_pc = "clean"
    /\ sl_i <= Len(sl_points)
    /\ SlCleanApply(clean_iter(CleanState(sl_cleaned, sl_seen, FALSE),
                               strip_point(sl_points[sl_i]), co_max))
    /\ UNCHANGED <<co_prog, co_lines, co_max, sl_points, sl_buffer, sl_list_buffer,
                   pp_combined, notCo>>

\* return cleaned_points, the cleaning loop exhausted
SlReturn ==
    /\ co_prog = "summarise_lines" /\ co_pc = "clean"
    /\ sl_i > Len(sl_points)
    /\ co_out' = sl_cleaned
    /\ co_pc' = "return"
    /\ UNCHANGED <<co_prog, co_lines, co_max, sl_points, sl_buffer, sl_list_buffer,
                   sl_i, sl_cleaned, sl_seen, pp_combined, notCo>>

\* post_process_bullets: cleaned and the combining loop
PpCombine ==
    /\ co_prog = "post_process_bullets" /\ co_pc = "combine"
    /\ pp_combined' = combine(cleaned_items(co_lines), 1, <<>>)
    /\ co_pc' = "dedupe"
    /\ UNCHANGED <<co_prog, co_lines, co_max, co_out, sl_points, sl_buffer,
                   sl_list_buffer, sl_i, sl_cleaned, sl_seen, notCo>>

\* post_process_bullets: the de-duplication loop and return deduped
PpDedupe ==
    /\ co_prog = "post_process_bullets" /\ co_pc = "dedupe"
    /\ co_out' = dedupe(pp_combined, <<>>, {})
    /\ co_pc' = "return"
    /\ UNCHANGED <<co_prog, co_lines, co_max, sl_points, sl_buffer, sl_list_buffer,
                   sl_i, sl_cleaned, sl_seen, pp_combined, notCo>>

\* to_bullets(lines, max_items)
TbCall ==
    /\ co_prog = "to_bullets" /\ co_pc = "call"
    /\ co_out' = to_bullets(co_lines, co_max)
    /\ co_pc' = "return"
    /\ UNCHANGED <<co_prog, co_lines, co_max, sl_points, sl_buffer, sl_list_buffer,
                   sl_i, sl_cleaned, sl_seen, pp_combined, notCo>>

NextConsolidate ==
    \/ SlLine \/ SlFinalFlush \/ SlColonPass \/ SlCleanPoint \/ SlReturn
    \/ PpCombine \/ PpDedupe
    \/ TbCall

SpecConsolidate == InitConsolidate /\ [][NextConsolidate]_vars

-----------------------------------------------------------------------------
(* Claims about the consolidators *)

\* no two positions of s hold equal values
NoDuplicates(s) == \A i, j \in 1..Len(s) : i # j => s[i] # s[j]

\* the values of s at the positions no equal value precedes, in order
RECURSIVE FirstOccurrencesFrom(_, _)
FirstOccurrencesFrom(s, i) ==
    IF i > Len(s) THEN <<>>
    ELSE (IF \A j \in 1..(i - 1) : s[j] # s[i] THEN <<s[i]>> ELSE <<>>)
             \o FirstOccurrencesFrom(s, i + 1)

FirstOccurrences(s) == FirstOccurrencesFrom(s, 1)

\* the candidates one stripped point of summarise_lines stands for: itself,
\* or its repacked fragments when it is over 90 characters and has a delimiter
PointCandidates(point) ==
    IF point = <<>> THEN <<>>
    ELSE IF Len(point) > 90 /\ has_delimiter(point)
    THEN repack(StrippedParts(SplitOn(point, Delimiters)), <<>>, <<>>)
    ELSE <<point>>

\* the pre-dedup candidate list of summarise_lines
Candidates(points) ==
    Flatten([i \in 1..Len(points) |-> PointCandidates(strip_point(points[i]))])

\* C8: the lists summarise_lines and post_process_bullets return hold no two
\* equal strings, and are the first occurrences of the pre-dedup candidates in
\* their order (for summarise_lines, as many of them as max_points allows)
C8_NoDuplicatesFirstOccurrence ==
    /\ (co_prog = "summarise_lines" /\ co_pc = "return") =>
           /\ NoDuplicates(co_out)
           /\ co_out = Take(FirstOccurrences(Candidates(sl_points)), co_max)
    /\ (co_prog = "post_process_bullets" /\ co_pc = "return") =>
           /\ NoDuplicates(co_out)
           /\ co_out = FirstOccurrences(pp_combined)

\* summarise_lines has returned two bullets or more from candidates of which
\* a repacked fragment repeats
C8_Witness ==
    /\ co_prog = "summarise_lines" /\ co_pc = "return"
    /\ Len(co_out) >= 2
    /\ \E i \in 1..Len(sl_points) :
           ~NoDuplicates(PointCandidates(strip_point(sl_points[i])))

\* C9: the list to_bullets returns holds no two equal strings
C9_ToBulletsNoDuplicates ==
    (co_prog = "to_bullets" /\ co_pc = "return") => NoDuplicates(co_out)

\* C10: every bullet summarise_lines returns is at most 90 characters long or
\* holds none of the secondary delimiters
C10_ShortOrUnsplittable ==
    (co_prog = "summarise_lines" /\ co_pc = "return") =>
        \A i \in 1..Len(co_out) :
            Len(co_out[i]) <= 90
                \/ \A k \in 1..Len(co_out[i]) :
                       co_out[i][k] \notin {CJK_COMMA, CJK_ENUM, CJK_SEMI, ",", ";"}

\* summarise_lines has returned a bullet over 90 characters and a bullet
\* repacked from the fragments of a point over 90 characters
C10_Witness ==
    /\ co_prog = "summarise_lines" /\ co_pc = "return"
    /\ \E i \in 1..Len(co_out) : Len(co_out[i]) > 90
    /\ \E i \in 1..Len(co_out) : CJK_ENUM \in {co_out[i][k] : k \in 1..Len(co_out[i])}
    /\ \E i \in 1..Len(sl_points) :
           Len(strip_point(sl_points[i])) > 90 /\ has_delimiter(sl_points[i])

\* the bounds on the lists of the consolidators
WithinMaxPoints ==
    /\ co_prog \in {"summarise_lines", "to_bullets"} => Len(co_out) <= co_max
    /\ co_prog = "summarise_lines" =>
           Len(sl_points) <= co_max /\ Len(sl_cleaned) <= co_max

\* a step of the line loop or of the flushes after it, taken with max_points
\* points, leaves points as it is
FullPointsStay ==
    (co_prog = "summarise_lines" /\ co_pc \in {"lines", "flush"}
         /\ Len(sl_points) >= co_max)
        => sl_points' = sl_points

\* C11: summarise_lines and to_bullets return at most max_points (max_items)
\* bullets; points and cleaned_points never hold more than max_points entries;
\* once points holds max_points entries the lines read later add nothing
C11_AtMostMaxPoints == []WithinMaxPoints /\ [][FullPointsStay]_vars

\* the line loop of summarise_lines was left by break with max_points points
\* while a line that is not blank was still unread
C11_Witness ==
    /\ co_prog = "summarise_lines" /\ co_pc = "flush"
    /\ Len(sl_points) = co_max
    /\ \E k \in sl_i..Len(co_lines) : clean_line(co_lines[k]) # <<>>

-----------------------------------------------------------------------------
\* a candidate of at most 12 characters without terminal punctuation that is
\* immediately followed by a candidate of more than 15 characters
LabelBeforeLong(cleaned, i) ==
    /\ i < Len(cleaned)
    /\ Len(cleaned[i]) <= 12
    /\ cleaned[i][Len(cleaned[i])] \notin {CJK_STOP, CJK_EXCL, CJK_QUES, "!", "?"}
    /\ Len(cleaned[i + 1]) > 15

\* consumed marks the candidates a left-to-right scan merges into the
\* candidate before them: the follower of a label that was not itself consumed
IsScan(cleaned, consumed) ==
    \A i \in 1..Len(cleaned) :
        consumed[i] <=> (i > 1 /\ ~consumed[i - 1] /\ LabelBeforeLong(cleaned, i - 1))

\* what the scan emits: each candidate that is not consumed, in order, a label
\* joined to its consumed follower by a full-width colon
Emitted(cleaned, consumed) ==
    LET kept == {i \in 1..Len(cleaned) : ~consumed[i]}
        nth(k) == CHOOSE i \in kept : Cardinality({h \in kept : h < i}) = k - 1
        out(i) == IF i < Len(cleaned) /\ consumed[i + 1]
                  THEN cleaned[i] \o <<CJK_COLON>> \o cleaned[i + 1]
                  ELSE cleaned[i]
    IN  [k \in 1..Cardinality(kept) |-> out(nth(k))]

SpecConsolidateFair == SpecConsolidate /\ WF_vars(SlColonPass)

\* the number of characters of the first k points
Offset(points, k) == Len(Flatten(SubSeq(points, 1, k)))

\* the positions of the text at which one point ends and the next begins
Boundaries(points) == {Offset(points, k) : k \in 1..(Len(points) - 1)}

EndsInColon(point) == point # <<>> /\ point[Len(point)] \in {CJK_COLON, ":"}

\* merged holds the text of points in the same order, each of its points a
\* concatenation of consecutive points, joined only behind a colon
Regroups(points, merged) ==
    /\ Flatten(merged) = Flatten(points)
    /\ Boundaries(merged) \subseteq Boundaries(points)
    /\ \A k \in 1..(Len(points) - 1) :
           Offset(points, k) \notin Boundaries(merged) => EndsInColon(points[k])

\* one pass of the colon loop regroups the points, and the loop is left only
\* by a pass that changes nothing
ColonPassRegroups ==
    (co_prog = "summarise_lines" /\ co_pc = "colon") =>
        /\ Regroups(sl_points, sl_points')
        /\ co_pc' = "clean" => sl_points' = sl_points

\* behind the colon loop only the last point may end in a colon
ColonOnlyAtEnd ==
    (co_prog = "summarise_lines" /\ co_pc \in {"clean", "return"}) =>
        \A k \in 1..(Len(sl_points) - 1) : ~EndsInColon(sl_points[k])

\* C17: the colon loop of summarise_lines terminates; behind it no point but
\* the last ends in a colon, each such point having been concatenated without
\* a separator with the point that followed it, the text keeping its order
C17_ColonLoopTerminates ==
    /\ (co_prog = "summarise_lines" /\ co_pc = "colon") ~> (co_pc = "clean")
    /\ []ColonOnlyAtEnd
    /\ [][ColonPassRegroups]_vars

\* the loop has ended after two passes that merged: one point is left and it
\* holds two colons in its middle
C17_Witness ==
    /\ co_prog = "summarise_lines" /\ co_pc = "clean" /\ sl_i = 1
    /\ Len(sl_points) = 1
    /\ Len(co_lines) = 3
    /\ Cardinality({k \in 1..(Len(sl_points[1]) - 1) :
                        sl_points[1][k] \in {CJK_COLON, ":"}}) = 2

\* s is an initial part of t
IsPrefix(s, t) == Len(s) <= Len(t) /\ SubSeq(t, 1, Len(s)) = s

\* in the line loop at most one of the two buffers holds lines
BuffersExclusive ==
    (co_prog = "summarise_lines" /\ co_pc \in {"lines", "flush"}) =>
        (sl_buffer = <<>> \/ sl_list_buffer = <<>>)

\* a step of the line loop or of the flushes behind it adds points at the end
\* only, and a buffer that loses lines loses all of them
PointsInLineOrder ==
    (co_prog = "summarise_lines" /\ co_pc \in {"lines", "flush"}) =>
        /\ IsPrefix(sl_points, sl_points')
        /\ IsPrefix(sl_buffer, sl_buffer') \/ sl_buffer' = <<>>
        /\ IsPrefix(sl_list_buffer, sl_list_buffer') \/ sl_list_buffer' = <<>>

\* C19: during the line loop of summarise_lines the paragraph buffer and the
\* list buffer are never both non-empty, and the points are emitted in the
\* order of the source lines: each step appends to the points, the buffer it
\* flushes holding the oldest lines not yet emitted
C19_OneBufferOpen == []BuffersExclusive /\ [][PointsInLineOrder]_vars

\* a list item has flushed a paragraph into the points and waits in the list
\* buffer
C19_Witness ==
    /\ co_prog = "summarise_lines" /\ co_pc = "lines" /\ sl_i = 3
    /\ clean_line(co_lines[1]) # <<>>
    /\ clean_line(co_lines[1]) = StripMarkers(clean_line(co_lines[1]))
    /\ sl_points # <<>>
    /\ sl_list_buffer # <<>> /\ sl_buffer = <<>>

(* The text functions applied to bounded inputs *)

MaxTextLen == 4

\* a letter, a space, a fullwidth and an ASCII terminator
SentenceAlphabet == {"a", " ", CJK_STOP, "!"}

\* a letter, a space and the Markdown markers the normalizers delete
MarkerAlphabet == {"a", " ", "*", "_", BACKTICK}

\* the strings over alphabet of at most MaxTextLen characters
Texts(alphabet) == UNION {[1..n -> alphabet] : n \in 0..MaxTextLen}

InitText ==
    /\ BsIdle /\ PgIdle /\ CoIdle /\ UbIdle /\ PrIdle /\ GsIdle /\ GiIdle
    /\ \/ tx_fn = "split_sentences" /\ tx_in \in Texts(SentenceAlphabet)
       \/ tx_fn \in {"clean_text", "clean_line"} /\ tx_in \in Texts(MarkerAlphabet)
    /\ tx_out = <<>>
    /\ tx_twice = <<>>
    /\ tx_pc = "call"

\* the value tx_fn returns for x
TxValue(x) ==
    IF tx_fn = "split_sentences" THEN split_sentences(x)
    ELSE IF tx_fn = "clean_text" THEN clean_text(x)
    ELSE clean_line(x)

\* the call f(tx_in)
TxCall ==
    /\ tx_pc = "call"
    /\ tx_out' = TxValue(tx_in)
    /\ tx_pc' = "once"
    /\ UNCHANGED <<tx_fn, tx_in, tx_twice, notTx>>

\* the call f(f(tx_in)) of a normalizer
TxCallAgain ==
    /\ tx_pc = "once"
    /\ tx_fn \in {"clean_text", "clean_line"}
    /\ tx_twice' = TxValue(tx_out)
    /\ tx_pc' = "twice"
    /\ UNCHANGED <<tx_fn, tx_in, tx_out, notTx>>

NextText == TxCall \/ TxCallAgain

SpecText == InitText /\ [][NextText]_vars

\* the characters of s that are not whitespace, in order
NonWhitespace(s) == SelectSeq(s, LAMBDA c : c \notin Whitespace)

\* C12: for a text that is not empty after trimming, split_sentences returns
\* at least one sentence and the sentences, concatenated, hold the
\* non-whitespace characters of the text in order, none lost
C12_SentencesCoverText ==
    (tx_fn = "split_sentences" /\ tx_pc = "once" /\ Strip(tx_in) # <<>>) =>
        /\ Len(tx_out) >= 1
        /\ NonWhitespace(Flatten(tx_out)) = NonWhitespace(tx_in)

\* C13: clean_line and clean_text are idempotent, f(f(s)) = f(s)
C13_NormalizersIdempotent ==
    (tx_fn \in {"clean_text", "clean_line"} /\ tx_pc = "twice") => tx_twice = tx_out

-----------------------------------------------------------------------------
(* src/generate_slides.py: parse_markdown, build_slide_data *)

\* An optional value (None or a value) is a sequence of length 0 or 1.
\* the title of a section intro when current_section is None or empty
OVERVIEW_TITLE == <<"U+6982", "U+8FF0">>

\* the section name of a slide whose record has none
DEFAULT_SECTION == <<"deck.section">>

\* the state of the line loop of parse_markdown (records: the list slides)
ParseState(records, current_section, section_intro_lines, current_slide) ==
    [slides |-> records, current_section |-> current_section,
     section_intro_lines |-> section_intro_lines, current_slide |-> current_slide]

\* flush_current_slide(): the new value of slides
flush_current_slide(records, current_slide) ==
    IF current_slide # <<>> THEN Append(records, current_slide[1]) ELSE records

\* flush_intro(): the new value of slides
flush_intro(records, current_section, section_intro_lines) ==
    IF section_intro_lines # <<>>
    THEN Append(records,
             [kind |-> "section_intro",
              section |-> current_section,
              title |-> IF current_section # <<>> /\ current_section[1] # <<>>
                        THEN current_section[1] ELSE OVERVIEW_TITLE,
              lines |-> section_intro_lines])
    ELSE records

\* flush_current_slide() then flush_intro()
flush_both(st) ==
    flush_intro(flush_current_slide(st.slides, st.current_slide),
                st.current_section, st.section_intro_lines)

\* one iteration of `for line in lines` of parse_markdown
parse_iter(st, line) ==
    IF StartsWith(line, <<"#", "#", " ">>)
    THEN ParseState(flush_both(st), <<Strip(Drop(line, 3))>>, <<>>, <<>>)
    ELSE IF StartsWith(line, <<"#", "#", "#", " ">>)
    THEN ParseState(flush_both(st), st.current_section, <<>>,
                    <<[kind |-> "subsection", section |-> st.current_section,
                       title |-> Strip(Drop(line, 4)), lines |-> <<>>]>>)
    ELSE IF st.current_slide # <<>>
    THEN ParseState(st.slides, st.current_section, st.section_intro_lines,
                    <<[st.current_slide[1] EXCEPT !.lines = Append(@, line)]>>)
    ELSE ParseState(st.slides, st.current_section,
                    Append(st.section_intro_lines, line), st.current_slide)

\* `for line in lines` of parse_markdown from line i on, then the last flushes
RECURSIVE parse_loop(_, _, _)
parse_loop(st, lines, i) ==
    IF i > Len(lines) THEN flush_both(st)
    ELSE parse_loop(parse_iter(st, lines[i]), lines, i + 1)

\* parse_markdown(md_path), lines the lines of the file
parse_markdown(lines) == parse_loop(ParseState(<<>>, <<>>, <<>>, <<>>), lines, 1)

\* the cover slide of build_slide_data
CoverData ==
    [kind |-> "cover", section |-> DEFAULT_SECTION, title |-> <<"deck.title">>,
     points |-> <<<<"cover.p1">>, <<"cover.p2">>, <<"cover.p3">>>>]

\* max_points and chunk_size of build_slide_data
DATA_MAX_POINTS == 5

DATA_CHUNK_SIZE == 5

\* the title of the chunk with index chunk_index (0-based)
chunk_title(base_title, chunk_index) ==
    IF chunk_index = 0 THEN base_title
    ELSE IF chunk_index = 1
    THEN base_title \o <<CJK_LPAREN, "U+7EED", CJK_RPAREN>>
    ELSE base_title \o <<CJK_LPAREN, "U+7EED">> \o ToStr(chunk_index) \o <<CJK_RPAREN>>

\* item.get('section') or the default
section_name(item) ==
    IF item.section # <<>> /\ item.section[1] # <<>> THEN item.section[1]
    ELSE DEFAULT_SECTION

\* the chunk loop of build_slide_data from chunk_index on
RECURSIVE chunk_slides(_, _, _)
chunk_slides(item, points, chunk_index) ==
    IF chunk_index * DATA_CHUNK_SIZE >= Len(points) THEN <<>>
    ELSE <<[kind |-> "standard", section |-> section_name(item),
            title |-> chunk_title(item.title, chunk_index),
            points |-> chunk_at(points, DATA_CHUNK_SIZE, chunk_index * DATA_CHUNK_SIZE)]>>
             \o chunk_slides(item, points, chunk_index + 1)

\* the item loop body without `if not points: continue`
item_slides_keep_empty(item, points) ==
    IF points = <<>>
    THEN <<[kind |-> "standard", section |-> section_name(item),
            title |-> item.title, points |-> <<>>]>>
    ELSE chunk_slides(item, points, 0)

\* the slides one parsed item adds, points = summarise_lines(item lines, 5)
item_slides(item, points) ==
    IF points = <<>> THEN <<>> ELSE chunk_slides(item, points, 0)

-----------------------------------------------------------------------------
(* src/convert_doubao_html_to_ppt.py: build_presentation                     *)
(* A section of the page is given by what the tag-tree functions find in it: *)
(* h2 is the text of its h2 (optional), intro_texts the fragments            *)
(* gather_intro_paragraphs collects before post_process_bullets, major the   *)
(* major headings in document order, each with the text of its h3 and the    *)
(* fragments gather_subsection_content collects before post_process_bullets. *)

AGENDA_CHUNK_SIZE == 9

AGENDA_TITLE == <<"U+76EE", "U+5F55">>

\* the cover slide of build_presentation (layout 0: title and subtitle only)
CoverPresentation == [kind |-> "cover", title |-> <<"hero.title">>, points |-> <<>>]

\* the chunk loop of add_bullet_slides from index idx on
RECURSIVE bullet_slides_from(_, _, _, _)
bullet_slides_from(title, valid_items, chunk_size, idx) ==
    IF (idx - 1) * chunk_size >= Len(valid_items) THEN <<>>
    ELSE <<[kind |-> "bullets",
            title |-> slide_title(title, idx, total_chunks(valid_items, chunk_size)),
            points |-> chunk_at(valid_items, chunk_size, (idx - 1) * chunk_size)]>>
             \o bullet_slides_from(title, valid_items, chunk_size, idx + 1)

\* add_bullet_slides(prs, title, items, chunk_size): the slides added
add_bullet_slides(title, items, chunk_size) ==
    IF NonEmpty(items) = <<>> THEN <<>>
    ELSE bullet_slides_from(title, NonEmpty(items), chunk_size, 1)

\* section_titles: the cleaned non-empty h2 texts
RECURSIVE section_titles(_)
section_titles(secs) ==
    IF secs = <<>> THEN <<>>
    ELSE IF secs[1].h2 # <<>> /\ clean_text_html(secs[1].h2[1]) # <<>>
    THEN <<clean_text_html(secs[1].h2[1])>> \o section_titles(Tail(secs))
    ELSE section_titles(Tail(secs))

\* f"{sec_title}|{subsection_title}" with the fullwidth bar
heading_title(sec_title, subsection_title) ==
    sec_title \o <<"U+FF5C">> \o subsection_title

\* the slides one major heading adds, content_items given
heading_slides(sec, heading, content_items) ==
    IF content_items = <<>> THEN <<>>
    ELSE add_bullet_slides(heading_title(clean_text_html(sec.h2[1]),
                                         clean_text_html(heading.h3)),
                           content_items, DEFAULT_CHUNK_SIZE)

-----------------------------------------------------------------------------
(* Inputs of the unbounded deck builders *)

MaxDocLines == 4
MaxHtmlSections == 2

\* the lines of a Markdown report: a section and a subsection heading, a
\* sentence, a blank line, a list item, a line clean_line empties
DocLineAlphabet ==
    {<<"#", "#", " ", "S">>, <<"#", "#", "#", " ", "T">>, <<"x", CJK_STOP>>,
     <<>>, <<"-", " ", "i">>, <<"*", "*">>}

DocInputs == UNION {[1..n -> DocLineAlphabet] : n \in 0..MaxDocLines}

\* a major heading with its fragments
Heading(fragments) == [h3 |-> <<"T">>, fragments |-> fragments]

\* the major headings of a section: none, one without content, one with
\* content, one of each
HeadingLists ==
    {<<>>, <<Heading(<<>>)>>, <<Heading(<<<<"q">>, <<"r">>>>)>>,
     <<Heading(<<>>), Heading(<<<<"q">>>>)>>}

\* sections without h2, with an h2 "S", and one whose h2 text is blank
HtmlSections ==
    [h2 : {<<>>, <<<<"S">>>>}, intro_texts : {<<>>, <<<<"p">>>>}, major : HeadingLists]
        \cup {[h2 |-> <<<<" ">>>>, intro_texts |-> <<<<"p">>>>,
               major |-> <<Heading(<<<<"q">>>>)>>]}

\* pages with a main element, and the page without one
HtmlInputs ==
    {[main |-> TRUE, sections |-> secs] :
         secs \in UNION {[1..n -> HtmlSections] : n \in 0..MaxHtmlSections}}
        \cup {[main |-> FALSE, sections |-> <<>>]}

-----------------------------------------------------------------------------
(* The unbounded deck builders as a state machine *)

InitUnbounded ==
    /\ BsIdle /\ PgIdle /\ CoIdle /\ TxIdle /\ PrIdle /\ GsIdle /\ GiIdle
    /\ \/ /\ ub_prog = "build_slide_data"
          /\ ub_input \in DocInputs
          /\ ub_pc = "parse"
       \/ /\ ub_prog = "build_presentation"
          /\ ub_input \in HtmlInputs
          /\ ub_pc = "cover"
    /\ ub_parsed = <<>>
    /\ ub_slides = <<>>
    /\ ub_i = 1
    /\ ub_j = 1

\* parsed = parse_markdown(md_path)
BdParse ==
    /\ ub_prog = "build_slide_data" /\ ub_pc = "parse"
    /\ ub_parsed' = parse_markdown(ub_input)
    /\ ub_pc' = "cover"
    /\ UNCHANGED <<ub_prog, ub_input, ub_slides, ub_i, ub_j, notUb>>

\* slides.append(cover)
BdCover ==
    /\ ub_prog = "build_slide_data" /\ ub_pc = "cover"
    /\ ub_slides' = Append(ub_slides, CoverData)
    /\ ub_pc' = "items"
    /\ UNCHANGED <<ub_prog, ub_input, ub_parsed, ub_i, ub_j, notUb>>

\* one iteration of `for item in parsed`
BdItem ==
    /\ ub_prog = "build_slide_data" /\ ub_pc = "items"
    /\ ub_i <= Len(ub_parsed)
    /\ ub_slides' = ub_slides
           \o item_slides(ub_parsed[ub_i],
                          summarise_lines(ub_parsed[ub_i].lines, DATA_MAX_POINTS))
    /\ ub_i' = ub_i + 1
    /\ UNCHANGED <<ub_prog, ub_input, ub_parsed, ub_j, ub_pc, notUb>>

\* return slides
BdReturn ==
    /\ ub_prog = "build_slide_data" /\ ub_pc = "items"
    /\ ub_i > Len(ub_parsed)
    /\ ub_pc' = "return"
    /\ UNCHANGED <<ub_prog, ub_input, ub_parsed, ub_slides, ub_i, ub_j, notUb>>

\* the cover slide; return when the page has no main element
BpCover ==
    /\ ub_prog = "build_presentation" /\ ub_pc = "cover"
    /\ ub_slides' = Append(ub_slides, CoverPresentation)
    /\ ub_pc' = IF ub_input.main THEN "agenda" ELSE "return"
    /\ UNCHANGED <<ub_prog, ub_input, ub_parsed, ub_i, ub_j, notUb>>

\* add_bullet_slides(prs, agenda title, section_titles, chunk_size=9)
BpAgenda ==
    /\ ub_prog = "build_presentation" /\ ub_pc = "agenda"
    /\ ub_slides' = ub_slides
           \o add_bullet_slides(AGENDA_TITLE, section_titles(ub_input.sections),
                                AGENDA_CHUNK_SIZE)
    /\ ub_pc' = "sections"
    /\ UNCHANGED <<ub_prog, ub_input, ub_parsed, ub_i, ub_j, notUb>>

\* `for sec in sections`: a section without h2 is skipped
BpSkipSection ==
    /\ ub_prog = "build_presentation" /\ ub_pc = "sections"
    /\ ub_i <= Len(ub_input.sections)
    /\ ub_input.sections[ub_i].h2 = <<>>
    /\ ub_i' = ub_i + 1
    /\ UNCHANGED <<ub_prog, ub_input, ub_parsed, ub_slides, ub_j, ub_pc, notUb>>

\* `for sec in sections`: the intro slides of a section with an h2
BpIntro ==
    /\ ub_prog = "build_presentation" /\ ub_pc = "sections"
    /\ ub_i <= Len(ub_input.sections)
    /\ ub_input.sections[ub_i].h2 # <<>>
    /\ ub_slides' = ub_slides
           \o add_bullet_slides(clean_text_html(ub_input.sections[ub_i].h2[1]),
                  post_process_bullets(ub_input.sections[ub_i].intro_texts),
                  DEFAULT_CHUNK_SIZE)
    /\ ub_j' = 1
    /\ ub_pc' = "headings"
    /\ UNCHANGED <<ub_prog, ub_input, ub_parsed, ub_i, notUb>>

\* one iteration of `for h3_tag in major_headings` (find_all returns each
\* tag once, so the seen_ids test never skips)
BpHeading ==
    /\ ub_prog = "build_presentation" /\ ub_pc = "headings"
    /\ ub_j <= Len(ub_input.sections[ub_i].major)
    /\ ub_slides' = ub_slides
           \o heading_slides(ub_input.sections[ub_i],
                  ub_input.sections[ub_i].major[ub_j],
                  post_process_bullets(ub_input.sections[ub_i].major[ub_j].fragments))
    /\ ub_j' = ub_j + 1
    /\ UNCHANGED <<ub_prog, ub_input, ub_parsed, ub_i, ub_pc, notUb>>

\* the heading loop is exhausted: the next section
BpSectionEnd ==
    /\ ub_prog = "build_presentation" /\ ub_pc = "headings"
    /\ ub_j > Len(ub_input.sections[ub_i].major)
    /\ ub_i' = ub_i + 1
    /\ ub_pc' = "sections"
    /\ UNCHANGED <<ub_prog, ub_input, ub_parsed, ub_slides, ub_j, notUb>>

\* return prs
BpReturn ==
    /\ ub_prog = "build_presentation" /\ ub_pc = "sections"
    /\ ub_i > Len(ub_input.sections)
    /\ ub_pc' = "return"
    /\ UNCHANGED <<ub_prog, ub_input, ub_parsed, ub_slides, ub_i, ub_j, notUb>>

NextUnbounded ==
    \/ BdParse \/ BdCover \/ BdItem \/ BdReturn
    \/ BpCover \/ BpAgenda \/ BpSkipSection \/ BpIntro \/ BpHeading
    \/ BpSectionEnd \/ BpReturn

SpecUnbounded == InitUnbounded /\ [][NextUnbounded]_vars

-----------------------------------------------------------------------------
(* Claims about the unbounded deck builders *)

\* the sum of f[1] .. f[n]
RECURSIVE SumTo(_, _)
SumTo(f, n) == IF n = 0 THEN 0 ELSE f[n] + SumTo(f, n - 1)

\* the sum of a sequence of numbers
Sum(f) == SumTo(f, Len(f))

\* the slides a consolidated bullet list fills: none when it is empty
GroupSlides(points, chunk_size) == CeilDiv(Len(points), chunk_size)

\* the slides the groups of one section of the page fill
SectionGroupSlides(sec) ==
    IF sec.h2 = <<>> THEN 0
    ELSE GroupSlides(post_process_bullets(sec.intro_texts), 8)
             + Sum([k \in 1..Len(sec.major) |->
                       GroupSlides(post_process_bullets(sec.major[k].fragments), 8)])

\* C7: under the unbounded policy every slide but the cover carries at least
\* one bullet, and the deck returned holds, past the cover (and the agenda),
\* ceil(n / chunk) slides for every section intro or subsection with n
\* consolidated bullets: none for a group whose bullet list is empty
C7_EmptyGroupsMakeNoSlides ==
    /\ \A k \in 1..Len(ub_slides) :
           ub_slides[k].kind # "cover" => ub_slides[k].points # <<>>
    /\ (ub_prog = "build_slide_data" /\ ub_pc = "return") =>
           Len(ub_slides) = 1 + Sum([k \in 1..Len(ub_parsed) |->
                                  GroupSlides(summarise_lines(ub_parsed[k].lines, 5), 5)])
    /\ (ub_prog = "build_presentation" /\ ub_pc = "return" /\ ub_input.main) =>
           Len(ub_slides) = 1 + GroupSlides(section_titles(ub_input.sections), 9)
                              + Sum([k \in 1..Len(ub_input.sections) |->
                                        SectionGroupSlides(ub_input.sections[k])])

\* build_slide_data has returned a deck with a content slide from a report
\* in which a section intro or subsection has no bullets
C7_Witness ==
    /\ ub_prog = "build_slide_data" /\ ub_pc = "return"
    /\ Len(ub_slides) >= 2
    /\ \E k \in 1..Len(ub_parsed) : summarise_lines(ub_parsed[k].lines, 5) = <<>>

-----------------------------------------------------------------------------
(* src/scripts/generate_slides.py: parse_report as a state machine           *)
(* current_section and current_subsection are references into sections:    *)
(* here the index of the Section, and the indices <<s, k>> of Subsection k   *)
(* of Section s.                                                             *)

MaxReportLines == 5

\* the lines of a report: two section headings, a subsection heading, a
\* content line, and "## " which rstrip turns into the content line "##"
ReportLineAlphabet ==
    {<<"#", "#", " ", "S">>, <<"#", "#", " ", "U">>, <<"#", "#", "#", " ", "T">>,
     <<"x">>, <<"#", "#", " ">>}

ReportInputs == UNION {[1..n -> ReportLineAlphabet] : n \in 0..MaxReportLines}

InitReport ==
    /\ BsIdle /\ PgIdle /\ CoIdle /\ UbIdle /\ TxIdle /\ GsIdle /\ GiIdle
    /\ pr_lines \in ReportInputs
    /\ pr_i = 1
    /\ pr_sections = <<>>
    /\ pr_current_section = 0
    /\ pr_current_subsection = <<>>
    /\ pr_pc = "lines"

\* line = raw_line.rstrip() for the line the loop is at
ReportLine == RStrip(pr_lines[pr_i])

\* the loop of parse_report is at a line
AtReportLine == pr_pc = "lines" /\ pr_i <= Len(pr_lines)

\* line.startswith("## ")
IsSectionLine(line) == StartsWith(line, <<"#", "#", " ">>)

\* line.startswith("### ")
IsSubsectionLine(line) == StartsWith(line, <<"#", "#", "#", " ">>)

\* Section(title)
NewSection(title) == [title |-> title, intro_lines |-> <<>>, subsections |-> <<>>]

\* the branch for "## " that leaves current_subsection as it is
PrSection_keepSubsection ==
    /\ AtReportLine /\ IsSectionLine(ReportLine)
    /\ pr_sections' = Append(pr_sections, NewSection(clean_text(Drop(ReportLine, 3))))
    /\ pr_current_section' = Len(pr_sections) + 1
    /\ pr_i' = pr_i + 1
    /\ UNCHANGED <<pr_lines, pr_current_subsection, pr_pc, notPr>>

\* a "## " line: a new Section, current_subsection = None
PrSection ==
    /\ AtReportLine /\ IsSectionLine(ReportLine)
    /\ pr_sections' = Append(pr_sections, NewSection(clean_text(Drop(ReportLine, 3))))
    /\ pr_current_section' = Len(pr_sections) + 1
    /\ pr_current_subsection' = <<>>
    /\ pr_i' = pr_i + 1
    /\ UNCHANGED <<pr_lines, pr_pc, notPr>>

\* a "### " line while a section is open: a new Subsection of it
PrSubsection ==
    /\ AtReportLine /\ IsSubsectionLine(ReportLine)
    /\ pr_current_section # 0
    /\ pr_sections' =
           [pr_sections EXCEPT ![pr_current_section].subsections =
                Append(@, Sub(clean_text(Drop(ReportLine, 4)), <<>>))]
    /\ pr_current_subsection' =
           <<pr_current_section,
             Len(pr_sections[pr_current_section].subsections) + 1>>
    /\ pr_i' = pr_i + 1
    /\ UNCHANGED <<pr_lines, pr_current_section, pr_pc, notPr>>

\* the branch for "### " with no section open, made to open a default Section
PrDropSubsection_default ==
    /\ AtReportLine /\ IsSubsectionLine(ReportLine)
    /\ pr_current_section = 0
    /\ pr_sections' = Append(pr_sections, NewSection(<<"default">>))
    /\ pr_current_section' = Len(pr_sections) + 1
    /\ pr_i' = pr_i + 1
    /\ UNCHANGED <<pr_lines, pr_current_subsection, pr_pc, notPr>>

\* a "### " line while current_section is None: continue
PrDropSubsection ==
    /\ AtReportLine /\ IsSubsectionLine(ReportLine)
    /\ pr_current_section = 0
    /\ pr_i' = pr_i + 1
    /\ UNCHANGED <<pr_lines, pr_sections, pr_current_section, pr_current_subsection,
                   pr_pc, notPr>>

\* the loop is at a line that is no heading
AtContentLine ==
    AtReportLine /\ ~IsSectionLine(ReportLine) /\ ~IsSubsectionLine(ReportLine)

\* current_subsection.lines.append(line)
PrSubsectionLine ==
    /\ AtContentLine
    /\ pr_current_subsection # <<>>
    /\ pr_sections' =
           [pr_sections EXCEPT
                ![pr_current_subsection[1]].subsections[pr_current_subsection[2]].lines =
                    Append(@, ReportLine)]
    /\ pr_i' = pr_i + 1
    /\ UNCHANGED <<pr_lines, pr_current_section, pr_current_subsection, pr_pc, notPr>>

\* current_section.intro_lines.append(line)
PrIntroLine ==
    /\ AtContentLine
    /\ pr_current_subsection = <<>> /\ pr_current_section # 0
    /\ pr_sections' =
           [pr_sections EXCEPT ![pr_current_section].intro_lines = Append(@, ReportLine)]
    /\ pr_i' = pr_i + 1
    /\ UNCHANGED <<pr_lines, pr_current_section, pr_current_subsection, pr_pc, notPr>>

\* a content line while no section is open: nothing is stored
PrDiscard ==
    /\ AtContentLine
    /\ pr_current_subsection = <<>> /\ pr_current_section = 0
    /\ pr_i' = pr_i + 1
    /\ UNCHANGED <<pr_lines, pr_sections, pr_current_section, pr_current_subsection,
                   pr_pc, notPr>>

\* return sections
PrReturn ==
    /\ pr_pc = "lines" /\ pr_i > Len(pr_lines)
    /\ pr_pc' = "return"
    /\ UNCHANGED <<pr_lines, pr_i, pr_sections, pr_current_section,
                   pr_current_subsection, notPr>>

NextReport ==
    \/ PrSection \/ PrSubsection \/ PrDropSubsection
    \/ PrSubsectionLine \/ PrIntroLine \/ PrDiscard
    \/ PrReturn

SpecReport == InitReport /\ [][NextReport]_vars

-----------------------------------------------------------------------------
(* Claims about parse_report *)

\* the indices of the "## " lines among the lines read so far
SectionLinesRead == {j \in 1..(pr_i - 1) : IsSectionLine(RStrip(pr_lines[j]))}

\* the index of the n-th "## " line read
NthSectionLine(n) ==
    CHOOSE j \in SectionLinesRead :
        Cardinality({h \in SectionLinesRead : h <= j}) = n

\* C14: nothing read before the first "## " line reaches the result: until
\* then sections is empty and no section or subsection is open; sections
\* holds exactly one Section per "## " line read, in order
C14_NothingBeforeFirstSection ==
    /\ SectionLinesRead = {} =>
           /\ pr_sections = <<>>
           /\ pr_current_section = 0
           /\ pr_current_subsection = <<>>
    /\ Len(pr_sections) = Cardinality(SectionLinesRead)
    /\ \A n \in 1..Len(pr_sections) :
           pr_sections[n].title = clean_text(Drop(RStrip(pr_lines[NthSectionLine(n)]), 3))

\* parse_report has returned a section from a report that opens with a
\* "### " line and has a content line before its first "## " line
C14_Witness ==
    /\ pr_pc = "return"
    /\ pr_sections # <<>>
    /\ Len(pr_lines) >= 3
    /\ IsSubsectionLine(pr_lines[1])
    /\ \E j \in 2..Len(pr_lines) :
           /\ \A h \in 1..j : ~IsSectionLine(RStrip(pr_lines[h]))
           /\ ~IsSubsectionLine(pr_lines[j])

\* the place the line read by this step must be stored in: the lines of the
\* last subsection of the last section when it has one, else its intro lines
StoredInPlace ==
    IF pr_sections[Len(pr_sections)].subsections # <<>>
    THEN pr_sections' =
             [pr_sections EXCEPT
                  ![Len(pr_sections)].subsections[
                        Len(pr_sections[Len(pr_sections)].subsections)].lines =
                      Append(@, ReportLine)]
    ELSE pr_sections' =
             [pr_sections EXCEPT ![Len(pr_sections)].intro_lines = Append(@, ReportLine)]

\* a step that reads a content line while a section is open stores it there
\* and nowhere else
ContentLinePlaced ==
    (AtContentLine /\ pr_sections # <<>> /\ pr_i' = pr_i + 1) => StoredInPlace

\* C18: a non-heading line met while a section is open is stored in exactly
\* one place, the most recent subsection opened since the most recent "## "
\* line, or else the intro lines of the most recent section
C18_LineStoredInOnePlace == [][ContentLinePlaced]_vars

\* a content line has been stored in the intro lines of the second section
\* while the first section has a subsection
C18_Witness ==
    /\ Len(pr_sections) >= 2
    /\ pr_sections[1].subsections # <<>>
    /\ pr_sections[2].intro_lines # <<>>

-----------------------------------------------------------------------------
(* Claims about parse_markdown *)

\* the lines from the first "## " line on, none when there is no such line
FromFirstSection(lines) ==
    IF \E j \in 1..Len(lines) : StartsWith(lines[j], <<"#", "#", " ">>)
    THEN SubSeq(lines,
                CHOOSE j \in 1..Len(lines) :
                    /\ StartsWith(lines[j], <<"#", "#", " ">>)
                    /\ \A h \in 1..(j - 1) : ~StartsWith(lines[h], <<"#", "#", " ">>),
                Len(lines))
    ELSE <<>>

\* C15: no record parse_markdown returns originates from lines that precede
\* the first "## " line: the result is the result for the lines from the
\* first "## " line on
C15_MarkdownNothingBeforeFirstSection ==
    (ub_prog = "build_slide_data" /\ ub_pc # "parse") =>
        ub_parsed = parse_markdown(FromFirstSection(ub_input))

-----------------------------------------------------------------------------
(* gather_subsection_content of src/convert_doubao_html_to_ppt.py          *)
(*                                                                         *)
(* A node of the parsed page is a record: a NavigableString has the empty  *)
(* name and its text in string, a Tag has a name, its classes and its      *)
(* children in document order.                                             *)

Str(text) == [name |-> "", classes |-> {}, string |-> text, children |-> <<>>]

Tag(name, classes, children) ==
    [name |-> name, classes |-> classes, string |-> <<>>, children |-> children]

\* isinstance(node, NavigableString)
IsString(node) == node.name = ""

SKIP_TAGS == {"script", "style", "canvas", "svg", "button"}

TEXT_TAGS == {"p", "blockquote", "h4", "h5", "h6", "dt", "dd"}

\* is_major_h3(tag)
is_major_h3(tag) == tag.name = "h3" /\ "text-xl" \in tag.classes

\* the strings below the nodes, in document order
RECURSIVE StringsOf(_)
StringsOf(nodes) ==
    IF nodes = <<>> THEN <<>>
    ELSE (IF IsString(nodes[1]) THEN <<nodes[1].string>>
          ELSE StringsOf(nodes[1].children))
         \o StringsOf(Tail(nodes))

\* node.get_text(" ", strip=True)
get_text(node) ==
    LET strings == StringsOf(node.children)
    IN  Join(NonEmpty([i \in 1..Len(strings) |-> Strip(strings[i])]), <<" ">>)

\* the tags below the nodes, in document order
RECURSIVE TagsOf(_)
TagsOf(nodes) ==
    IF nodes = <<>> THEN <<>>
    ELSE (IF IsString(nodes[1]) THEN <<>>
          ELSE <<nodes[1]>> \o TagsOf(nodes[1].children))
         \o TagsOf(Tail(nodes))

\* node.find_all(names)
find_all(node, names) == SelectSeq(TagsOf(node.children), LAMBDA t : t.name \in names)

\* node.find_all(names, recursive=False)
find_children(node, names) == SelectSeq(node.children, LAMBDA t : t.name \in names)

\* texts.append(text) under `if text:`
text_if_any(text) == IF text = <<>> THEN <<>> ELSE <<text>>

\* " | ".join(filtered) for the cells of one table row, empty for no cell
row_text(tr) ==
    LET cells == find_all(tr, {"th", "td"})
    IN  Join(NonEmpty([i \in 1..Len(cells) |-> clean_text_html(get_text(cells[i]))]),
             <<" ", "|", " ">>)

\* the rows of a table that have a non-empty cell
table_texts(node) ==
    LET rows == find_all(node, {"tr"})
    IN  NonEmpty([i \in 1..Len(rows) |-> row_text(rows[i])])

\* extract_texts(node), and texts.extend(extract_texts(child)) for each child
RECURSIVE extract_texts(_)
RECURSIVE extract_each(_)
extract_texts(node) ==
    IF IsString(node) THEN text_if_any(clean_text_html(node.string))
    ELSE IF node.name \in SKIP_TAGS THEN <<>>
    ELSE IF node.name = "li" THEN text_if_any(clean_text_html(get_text(node)))
    ELSE IF node.name \in TEXT_TAGS THEN text_if_any(clean_text_html(get_text(node)))
    ELSE IF node.name \in {"ul", "ol"} THEN extract_each(find_children(node, {"li"}))
    ELSE IF node.name = "table" THEN table_texts(node)
    ELSE IF node.name = "dl" THEN extract_each(find_children(node, {"dt", "dd"}))
    ELSE IF is_major_h3(node) THEN <<>>
    ELSE extract_each(node.children)

extract_each(nodes) ==
    IF nodes = <<>> THEN <<>>
    ELSE extract_texts(nodes[1]) \o extract_each(Tail(nodes))

MaxSiblings == 2

MaxChildren == 2

\* the nodes without tag children: a string, a whitespace string, a paragraph,
\* a major and a minor h3, a list and a script
GsLeaves ==
    {Str(<<"a">>), Str(<<" ">>),
     Tag("p", {}, <<Str(<<"b">>)>>),
     Tag("h3", {"text-xl"}, <<Str(<<"M">>)>>),
     Tag("h3", {"text-lg"}, <<Str(<<"h">>)>>),
     Tag("ul", {}, <<Tag("li", {}, <<Str(<<"c">>)>>)>>),
     Tag("script", {}, <<Str(<<"s">>)>>)}

\* the containers of up to MaxChildren such nodes
GsContainers ==
    {Tag("div", {}, c) : c \in UNION {[1..n -> GsLeaves] : n \in 1..MaxChildren}}

\* the siblings that follow the heading
GsInputs == UNION {[1..n -> GsLeaves \cup GsContainers] : n \in 0..MaxSiblings}

InitGather ==
    /\ BsIdle /\ PgIdle /\ CoIdle /\ UbIdle /\ TxIdle /\ PrIdle /\ GiIdle
    /\ gs_siblings \in GsInputs
    /\ gs_i = 1
    /\ gs_fragments = <<>>
    /\ gs_out = <<>>
    /\ gs_pc = "siblings"

AtSibling == gs_pc = "siblings" /\ gs_i <= Len(gs_siblings)

\* a sibling that is a major h3: break
GsBreak ==
    /\ AtSibling
    /\ ~IsString(gs_siblings[gs_i]) /\ is_major_h3(gs_siblings[gs_i])
    /\ gs_pc' = "return"
    /\ UNCHANGED <<gs_siblings, gs_i, gs_fragments, gs_out, notGs>>

\* any other Tag sibling: fragments.extend(extract_texts(sibling))
GsTag ==
    /\ AtSibling
    /\ ~IsString(gs_siblings[gs_i]) /\ ~is_major_h3(gs_siblings[gs_i])
    /\ gs_fragments' = gs_fragments \o extract_texts(gs_siblings[gs_i])
    /\ gs_i' = gs_i + 1
    /\ UNCHANGED <<gs_siblings, gs_out, gs_pc, notGs>>

\* a NavigableString sibling: its cleaned text is appended when not empty
GsString ==
    /\ AtSibling
    /\ IsString(gs_siblings[gs_i])
    /\ gs_fragments' = gs_fragments
                           \o text_if_any(clean_text_html(gs_siblings[gs_i].string))
    /\ gs_i' = gs_i + 1
    /\ UNCHANGED <<gs_siblings, gs_out, gs_pc, notGs>>

\* return post_process_bullets(fragments)
GsReturn ==
    /\ \/ gs_pc = "return"
       \/ gs_pc = "siblings" /\ gs_i > Len(gs_siblings)
    /\ gs_out' = post_process_bullets(gs_fragments)
    /\ gs_pc' = "done"
    /\ UNCHANGED <<gs_siblings, gs_i, gs_fragments, notGs>>

NextGather == GsBreak \/ GsTag \/ GsString \/ GsReturn

SpecGather == InitGather /\ [][NextGather]_vars

-----------------------------------------------------------------------------
(* Claims about gather_subsection_content *)

\* the nodes cut at the first major h3 of the document order: that heading
\* and everything behind it are removed
RECURSIVE HasMajor(_)
HasMajor(nodes) ==
    /\ nodes # <<>>
    /\ \/ ~IsString(nodes[1]) /\ (is_major_h3(nodes[1]) \/ HasMajor(nodes[1].children))
       \/ HasMajor(Tail(nodes))

RECURSIVE BeforeMajor(_)
BeforeMajor(nodes) ==
    IF nodes = <<>> THEN <<>>
    ELSE IF IsString(nodes[1]) THEN <<nodes[1]>> \o BeforeMajor(Tail(nodes))
    ELSE IF is_major_h3(nodes[1]) THEN <<>>
    ELSE IF HasMajor(nodes[1].children)
    THEN <<[nodes[1] EXCEPT !.children = BeforeMajor(nodes[1].children)]>>
    ELSE <<nodes[1]>> \o BeforeMajor(Tail(nodes))

\* C20: the fragments gather_subsection_content collects hold no text that
\* lies behind a later major h3: they are the fragments of the siblings cut at
\* the first major h3 of the document order, nested ones included
C20_StopsAtNestedMajor ==
    gs_pc = "done" =>
        /\ gs_fragments = extract_each(BeforeMajor(gs_siblings))
        /\ gs_out = post_process_bullets(extract_each(BeforeMajor(gs_siblings)))

-----------------------------------------------------------------------------
(* gather_intro_paragraphs of src/convert_doubao_html_to_ppt.py *)

\* contains_major_h3(tag): tag.find(is_major_h3) searches every descendant
contains_major_h3(tag) ==
    /\ ~IsString(tag)
    /\ \E i \in 1..Len(TagsOf(tag.children)) : is_major_h3(TagsOf(tag.children)[i])

\* the loop of extract_texts_before_major over tag.children
RECURSIVE before_major_loop(_)
before_major_loop(children) ==
    IF children = <<>> THEN <<>>
    ELSE IF IsString(children[1])
    THEN text_if_any(clean_text_html(children[1].string))
             \o before_major_loop(Tail(children))
    ELSE IF is_major_h3(children[1]) THEN <<>>
    ELSE IF contains_major_h3(children[1]) THEN before_major_loop(children[1].children)
    ELSE extract_texts(children[1]) \o before_major_loop(Tail(children))

\* extract_texts_before_major(tag)
extract_texts_before_major(tag) == before_major_loop(tag.children)

\* the block loop of gather_intro_paragraphs: intro_texts
RECURSIVE intro_texts_of(_)
intro_texts_of(blocks) ==
    IF blocks = <<>> THEN <<>>
    ELSE IF contains_major_h3(blocks[1]) THEN extract_texts_before_major(blocks[1])
    ELSE extract_texts(blocks[1]) \o intro_texts_of(Tail(blocks))

\* gather_intro_paragraphs(h2), blocks = get_content_blocks(h2)
gather_intro_paragraphs(blocks) == post_process_bullets(intro_texts_of(blocks))

MaxBlocks == 2

\* a major h3 and a string, each free and inside a button, and a paragraph
GiLeaves ==
    {Str(<<"a">>),
     Tag("p", {}, <<Str(<<"b">>)>>),
     Tag("h3", {"text-xl"}, <<Str(<<"M">>)>>),
     Tag("button", {}, <<Tag("h3", {"text-xl"}, <<Str(<<"M">>)>>)>>),
     Tag("button", {}, <<Str(<<"s">>)>>)}

GiContainers ==
    {Tag("div", {}, c) : c \in UNION {[1..n -> GiLeaves] : n \in 1..MaxChildren}}

\* get_content_blocks returns Tags only
GiInputs ==
    UNION {[1..n -> {t \in GiLeaves : ~IsString(t)} \cup GiContainers] :
               n \in 0..MaxBlocks}

InitIntro ==
    /\ BsIdle /\ PgIdle /\ CoIdle /\ UbIdle /\ TxIdle /\ PrIdle /\ GsIdle
    /\ gi_blocks \in GiInputs
    /\ gi_i = 1
    /\ gi_intro_texts = <<>>
    /\ gi_out = <<>>
    /\ gi_pc = "blocks"

AtBlock == gi_pc = "blocks" /\ gi_i <= Len(gi_blocks)

\* a block that contains a major h3: the text before it, then break
GiBoundary ==
    /\ AtBlock
    /\ contains_major_h3(gi_blocks[gi_i])
    /\ gi_intro_texts' = gi_intro_texts \o extract_texts_before_major(gi_blocks[gi_i])
    /\ gi_pc' = "return"
    /\ UNCHANGED <<gi_blocks, gi_i, gi_out, notGi>>

\* any other block: intro_texts.extend(extract_texts(block))
GiBlock ==
    /\ AtBlock
    /\ ~contains_major_h3(gi_blocks[gi_i])
    /\ gi_intro_texts' = gi_intro_texts \o extract_texts(gi_blocks[gi_i])
    /\ gi_i' = gi_i + 1
    /\ UNCHANGED <<gi_blocks, gi_out, gi_pc, notGi>>

\* return post_process_bullets(intro_texts)
GiReturn ==
    /\ \/ gi_pc = "return"
       \/ gi_pc = "blocks" /\ gi_i > Len(gi_blocks)
    /\ gi_out' = post_process_bullets(gi_intro_texts)
    /\ gi_pc' = "done"
    /\ UNCHANGED <<gi_blocks, gi_i, gi_intro_texts, notGi>>

NextIntro == GiBoundary \/ GiBlock \/ GiReturn

SpecIntro == InitIntro /\ [][NextIntro]_vars

-----------------------------------------------------------------------------
(* Claims about gather_intro_paragraphs *)

\* the nodes with the content of every excluded tag removed
RECURSIVE WithoutExcluded(_)
WithoutExcluded(nodes) ==
    [i \in 1..Len(nodes) |->
        IF IsString(nodes[i]) THEN nodes[i]
        ELSE IF nodes[i].name \in {"script", "style", "canvas", "svg", "button"}
        THEN [nodes[i] EXCEPT !.children = <<>>]
        ELSE [nodes[i] EXCEPT !.children = WithoutExcluded(nodes[i].children)]]

\* C21: a major h3 inside an excluded tag (script, style, canvas, svg, button)
\* is no boundary: the intro fragments are those of the same blocks with the
\* content of the excluded tags removed
C21_ExcludedHeadingIsNoBoundary ==
    gi_pc = "done" =>
        /\ gi_intro_texts = intro_texts_of(WithoutExcluded(gi_blocks))
        /\ gi_out = gather_intro_paragraphs(WithoutExcluded(gi_blocks))

====
